---- MODULE Spec2Model ----
(***************************************************************************)
(* Generic-graph projection and tabular export layer of kg_sensors:        *)
(*   nx_convert.to_networkx_entity_graph, nx_convert.to_networkx_bipartite_graph *)
(*   and exporters.export_to_csv, with the label/type resolvers they call   *)
(*   and the parts of rdflib's namespace manager and networkx's Graph they  *)
(*   rely on.                                                               *)
(*                                                                         *)
(* One behaviour is one call of one of the three functions on one input    *)
(* graph.  The loops of the functions are taken one iteration per step; a  *)
(* loop over a set (the triples of the graph, a Python set) takes its       *)
(* elements in any order.                                                   *)
(***************************************************************************)
EXTENDS Integers, FiniteSets, Sequences, Bags, TLC

(***************************************************************************)
(* RDF terms.  A term is [kind, ns, name]: a URIRef is its namespace IRI   *)
(* followed by its local name; a Literal or a BNode has an empty ns and    *)
(* its text in name.  str(term) is the concatenation.                      *)
(***************************************************************************)
EXns   == "http://example.com/ontology/"
SENns  == "http://example.com/sensor/"
VEHns  == "http://example.com/vehicle/"
RDFns  == "http://www.w3.org/1999/02/22-rdf-syntax-ns#"
RDFSns == "http://www.w3.org/2000/01/rdf-schema#"

URIRef(ns, name) == [ns |-> ns, name |-> name, kind |-> "uri"]
Literal(text)    == [ns |-> "", name |-> text, kind |-> "lit"]
BNode(id)        == [ns |-> "", name |-> id, kind |-> "bnode"]

Str(t) == t.ns \o t.name
IsURIRef(t) == t.kind = "uri"

RDF_type   == URIRef(RDFns, "type")
RDFS_label == URIRef(RDFSns, "label")
EX_VehicleModel == URIRef(EXns, "VehicleModel")
EX_SensorModel  == URIRef(EXns, "SensorModel")
\* the class EX.Concept of data_generator's ontology
EX_Concept == URIRef(EXns, "Concept")
EX_compatibleWithModel == URIRef(EXns, "compatibleWithModel")
EX_installedInModel == URIRef(EXns, "installedInModel")
\* an identifier ending in "/": rdflib's split_uri finds no local name in it
BADns  == "http://example.com/bad/"
EX_bad == URIRef(BADns, "")

\* an identifier with a space in it: rdflib's _is_valid_uri rejects it
EX_my_thing == URIRef(EXns, "my thing")

v1 == URIRef(VEHns, "v1")
s1 == URIRef(SENns, "s1")
b0 == BNode("b0")
CarA    == Literal("Car A")
SensorA == Literal("Sensor A")
\* a label whose text is empty
EmptyLabel == Literal("")
\* a literal whose text is the identifier of s1
LitS1   == Literal("http://example.com/sensor/s1")

Triple(s, p, o) == <<s, p, o>>

\* Scenario A of the specification
ScenarioA ==
  { Triple(v1, RDF_type, EX_VehicleModel), Triple(v1, RDFS_label, CarA),
    Triple(s1, RDF_type, EX_SensorModel),  Triple(s1, RDFS_label, SensorA),
    Triple(v1, EX_compatibleWithModel, s1) }

\* the triples input graphs are drawn from
Universe ==
  ScenarioA \cup
  { Triple(v1, RDF_type, EX_SensorModel), Triple(s1, RDF_type, EX_VehicleModel),
    Triple(v1, EX_compatibleWithModel, v1), Triple(s1, EX_compatibleWithModel, v1),
    Triple(v1, EX_compatibleWithModel, LitS1),
    Triple(v1, EX_installedInModel, s1), Triple(s1, EX_installedInModel, v1),
    Triple(v1, EX_bad, s1),
    Triple(b0, EX_installedInModel, s1), Triple(b0, RDF_type, EX_VehicleModel),
    Triple(s1, RDF_type, EX_Concept),
    Triple(s1, RDFS_label, EmptyLabel),
    Triple(v1, EX_installedInModel, EX_my_thing),
    Triple(v1, EX_installedInModel, EX_bad) }

MaxTriples == 3

Terms == UNION { {t[1], t[3]} : t \in Universe }
Subjects == { t[1] : t \in Universe }
None == [ns |-> "", name |-> "", kind |-> "none"]
NoPrefix == "-"

(***************************************************************************)
(* rdflib's NamespaceManager: prefixOf maps a namespace IRI to its bound   *)
(* prefix, NoPrefix when it has none.                                      *)
(***************************************************************************)
Namespaces == {EXns, SENns, VEHns, RDFns, RDFSns, BADns}

\* the bindings of rdf_utils.init_graph(): every entry of NS_MAP
NS_MAP ==
  [n \in Namespaces |->
     CASE n = EXns   -> "ex"
       [] n = SENns  -> "sen"
       [] n = VEHns  -> "veh"
       [] n = RDFns  -> "rdf"
       [] n = RDFSns -> "rdfs"
       [] OTHER      -> NoPrefix]

\* the bindings of a bare rdflib Graph(): rdflib's own namespaces only
DefaultBindings ==
  [n \in Namespaces |->
     CASE n = RDFns  -> "rdf"
       [] n = RDFSns -> "rdfs"
       [] OTHER      -> NoPrefix]

\* split_uri raises ValueError when the identifier has no local name
CanSplit(u) == u.name # ""

\* rdflib's _is_valid_uri: no space, quote, angle bracket, brace, ... in it
IsValidURI(u) == u.name # "my thing"

\* the outcome of a call that raises instead of returning a string
Exc == "!Exception!"

GeneratedPrefixes == <<"ns1", "ns2", "ns3">>

\* compute_qname(generate=True): the first "ns<num>" that no namespace uses
NewPrefix(b) ==
  LET used == { b[n] : n \in DOMAIN b }
      free == { i \in 1..Len(GeneratedPrefixes) : GeneratedPrefixes[i] \notin used }
  IN  GeneratedPrefixes[CHOOSE i \in free : \A j \in free : i <= j]

\* NamespaceManager.qname(uri): [raised, text, bindings]; an unbound namespace
\* gets a generated prefix, which is bound in the manager as a side effect
qname(b, u) ==
  IF ~IsValidURI(u) \/ ~CanSplit(u)
    THEN [raised |-> TRUE, prefix |-> "", name |-> "", text |-> "", bindings |-> b]
    ELSE IF b[u.ns] # NoPrefix
      THEN [raised |-> FALSE, prefix |-> b[u.ns], name |-> u.name,
            text |-> b[u.ns] \o ":" \o u.name, bindings |-> b]
      ELSE LET pfx == NewPrefix(b)
           IN  [raised |-> FALSE, prefix |-> pfx, name |-> u.name,
                text |-> pfx \o ":" \o u.name,
                bindings |-> [b EXCEPT ![u.ns] = pfx]]

\* term.n3(namespace_manager): URIRef.n3 raises on an invalid identifier;
\* otherwise normalizeUri never binds and never raises, and gives "<uri>"
\* when the identifier cannot be split or its namespace has no prefix
n3(b, t) ==
  CASE t.kind = "lit"   -> "\"" \o t.name \o "\""
    [] t.kind = "bnode" -> "_:" \o t.name
    [] OTHER ->
         IF ~IsValidURI(t) THEN Exc
         ELSE IF CanSplit(t) /\ b[t.ns] # NoPrefix
           THEN b[t.ns] \o ":" \o t.name
           ELSE "<" \o Str(t) \o ">"

\* 'qname.startswith("<")' for the results of n3
StartsWithAngle(b, t) == IsURIRef(t) /\ IsValidURI(t) /\ ~(CanSplit(t) /\ b[t.ns] # NoPrefix)

(***************************************************************************)
(* Graph.value and the label/type resolvers                                *)
(***************************************************************************)
objects(G, s, p) == { t[3] : t \in { x \in G : x[1] = s /\ x[2] = p } }
subjects(G, p, o) == { t[1] : t \in { x \in G : x[2] = p /\ x[3] = o } }

\* Graph.value(subject, predicate): the first object the store yields, None
\* when there is none; first.type[s] and first.label[s] are the store's first
\* rdf:type and rdfs:label objects of s
value(G, first, s, p) ==
  LET objs == objects(G, s, p)
  IN  IF objs = {} THEN None
      ELSE IF p = RDF_type /\ s \in DOMAIN first.type /\ first.type[s] \in objs
        THEN first.type[s]
      ELSE IF p = RDFS_label /\ s \in DOMAIN first.label /\ first.label[s] \in objs
        THEN first.label[s]
      ELSE CHOOSE o \in objs : TRUE

\* truth value of a term or of None in "if label:"
Truthy(t) == t # None /\ Str(t) # ""

\* a get_label without its try/except
get_label_NoTry(G, b, first, node) ==
  LET label == value(G, first, node, RDFS_label)
  IN  IF Truthy(label) THEN Str(label) ELSE n3(b, node)

\* nx_convert.get_label: an exception of n3 is caught and str(node) returned
get_label(G, b, first, node) ==
  LET label == value(G, first, node, RDFS_label)
      r     == n3(b, node)
  IN  IF Truthy(label) THEN Str(label)
      ELSE IF r = Exc THEN Str(node) ELSE r

\* nx_convert.get_type_label
get_type_label(G, b, first, node) ==
  LET node_type == value(G, first, node, RDF_type)
  IN  IF Truthy(node_type) THEN get_label(G, b, first, node_type) ELSE "Resource"

\* the part of the identifier after its last "/"
LastSegment(t) ==
  CASE t.ns = RDFns  -> "22-rdf-syntax-ns#" \o t.name
    [] t.ns = RDFSns -> "rdf-schema#" \o t.name
    [] OTHER         -> t.name

\* rdf_utils.get_node_label
get_node_label(G, b, first, node) ==
  IF ~IsURIRef(node) THEN Str(node)
  ELSE LET label == value(G, first, node, RDFS_label)
           qn    == n3(b, node)
       IN  IF Truthy(label) THEN Str(label)
           ELSE IF qn # Exc /\ ~StartsWithAngle(b, node) THEN qn
           ELSE LastSegment(node)

\* rdf_utils.get_type_label
rdf_utils_get_type_label(G, b, first, node) ==
  LET node_type == value(G, first, node, RDF_type)
  IN  IF Truthy(node_type) /\ IsURIRef(node_type)
        THEN get_node_label(G, b, first, node_type)
        ELSE "Resource"

\* a resolver called for this attribute record let an exception out
Raises(attrs) == Exc \in {attrs.label, attrs.type}

(***************************************************************************)
(* networkx.Graph: nodes maps a node identifier to its attribute record,   *)
(* edges maps an unordered pair {u, v} ({u} for a self-loop) to the        *)
(* attribute record of the single edge between u and v.                    *)
(***************************************************************************)
NoAttrs == [k \in {} |-> ""]
EmptyGraph == [nodes |-> [n \in {} |-> NoAttrs], edges |-> [e \in {} |-> NoAttrs]]

\* an update that keeps the entries already present
Update_KeepOld(old, new) ==
  [k \in DOMAIN old \cup DOMAIN new |-> IF k \in DOMAIN old THEN old[k] ELSE new[k]]

\* dict.update: the entries of new replace those of old
Update(old, new) ==
  [k \in DOMAIN old \cup DOMAIN new |-> IF k \in DOMAIN new THEN new[k] ELSE old[k]]

\* Graph.add_node(n, **attrs): creates n or updates its attributes
add_node(G, n, attrs) ==
  [G EXCEPT !.nodes =
     [x \in DOMAIN G.nodes \cup {n} |->
        IF x = n THEN (IF n \in DOMAIN G.nodes THEN Update(G.nodes[n], attrs) ELSE attrs)
        ELSE G.nodes[x]]]

\* Graph.add_edge(u, v, **attrs): an endpoint that is not yet a node is added
\* without attributes; an existing edge between u and v has its attributes
\* updated
add_edge(G, u, v, attrs) ==
  LET e == {u, v}
  IN  [nodes |-> [x \in DOMAIN G.nodes \cup e |->
                    IF x \in DOMAIN G.nodes THEN G.nodes[x] ELSE NoAttrs],
       edges |-> [x \in DOMAIN G.edges \cup {e} |->
                    IF x = e THEN (IF e \in DOMAIN G.edges THEN Update(G.edges[e], attrs)
                                   ELSE attrs)
                    ELSE G.edges[x]]]

(***************************************************************************)
(* The bodies of the loops of the three functions                          *)
(***************************************************************************)
\* a first pass that forgets the objects
EntityCollect_SubjectsOnly(acc, t) ==
  acc \cup (IF IsURIRef(t[1]) THEN {t[1]} ELSE {})

\* first pass of to_networkx_entity_graph: the URIRef ends of one triple
EntityCollect(acc, t) ==
  acc \cup (IF IsURIRef(t[1]) THEN {t[1]} ELSE {}) \cup (IF IsURIRef(t[3]) THEN {t[3]} ELSE {})

\* attributes of an entity-graph node
EntityNodeAttrs(G, b, first, node) ==
  [label |-> get_label(G, b, first, node), type |-> get_type_label(G, b, first, node),
   uri |-> Str(node), kind |-> "Entity"]

\* an edge test that looks at the subject only, so that a literal object
\* becomes an endpoint
EntityEdgeTest_AnyObject(t) == IsURIRef(t[1])

\* an edge test that skips a triple from a resource to itself
EntityEdgeTest_NoSelfLoop(t) == IsURIRef(t[1]) /\ IsURIRef(t[3]) /\ t[1] # t[3]

\* second pass of to_networkx_entity_graph: only object properties give edges
EntityEdgeTest(t) == IsURIRef(t[1]) /\ IsURIRef(t[3])

\* g.subjects(predicate=RDF.type, object=EX.VehicleModel)
Vehicles(G) == subjects(G, RDF_type, EX_VehicleModel)

\* g.subjects(predicate=RDF.type, object=EX.SensorModel)
Sensors(G) == subjects(G, RDF_type, EX_SensorModel)

VehicleAttrs(G, b, first, v) ==
  [label |-> get_label(G, b, first, v), type |-> "VehicleModel", bipartite |-> 0]

\* a sensor pass that tags its nodes with the side of the vehicles
SensorAttrs_Side0(G, b, first, s) ==
  [label |-> get_label(G, b, first, s), type |-> "SensorModel", bipartite |-> 0]

SensorAttrs(G, b, first, s) ==
  [label |-> get_label(G, b, first, s), type |-> "SensorModel", bipartite |-> 1]

\* an edge loop that follows another property
CompatiblePairs_WrongProperty(G, vs) == { t \in G : t[1] \in vs /\ t[2] = EX_installedInModel }

\* the (v, s) pairs of the edge loop of to_networkx_bipartite_graph
CompatiblePairs(G, vs) == { t \in G : t[1] \in vs /\ t[2] = EX_compatibleWithModel }

\* an edge loop without the membership test
BipartiteEdgeTest_Always(nxg, s) == TRUE

\* "if str(s) in nx_graph"
BipartiteEdgeTest(nxg, s) == Str(s) \in DOMAIN nxg.nodes

\* a collection of all_uris that forgets the objects
ExportCollect_SubjectsOnly(acc, t) ==
  acc \cup (IF IsURIRef(t[1]) THEN {t[1]} ELSE {})

\* collection of all_uris in export_to_csv
ExportCollect(acc, t) ==
  acc \cup (IF IsURIRef(t[1]) THEN {t[1]} ELSE {}) \cup (IF IsURIRef(t[3]) THEN {t[3]} ELSE {})

\* "if uri not in processed_nodes"
ExportNodeTest(processed, uri) == uri \notin processed

\* a node record that reclassifies every untyped URI
NodeRow_AlwaysConcept(G, b, first, uri) ==
  LET node_type == rdf_utils_get_type_label(G, b, first, uri)
  IN  [uri |-> Str(uri), label |-> get_node_label(G, b, first, uri),
       type |-> IF node_type = "Resource" THEN "Concept" ELSE node_type]

\* the node record of export_to_csv
NodeRow(G, b, first, uri) ==
  LET node_type == rdf_utils_get_type_label(G, b, first, uri)
  IN  [uri |-> Str(uri), label |-> get_node_label(G, b, first, uri),
       type |-> IF node_type = "Resource" /\ ~(\E t \in G : t[1] = uri)
                  THEN "Concept" ELSE node_type]

\* an edge test that looks at the subject only
ExportEdgeTest_SubjectOnly(t) == IsURIRef(t[1])

\* edge records are made for URI to URI triples only
ExportEdgeTest(t) == IsURIRef(t[1]) /\ IsURIRef(t[3])

\* str.upper() on the prefixes and local names of the model
Upper(x) ==
  CASE x = "ex"   -> "EX"
    [] x = "rdf"  -> "RDF"
    [] x = "rdfs" -> "RDFS"
    [] x = "ns1"  -> "NS1"
    [] x = "ns2"  -> "NS2"
    [] x = "ns3"  -> "NS3"
    [] x = "type"  -> "TYPE"
    [] x = "label" -> "LABEL"
    [] x = "compatibleWithModel" -> "COMPATIBLEWITHMODEL"
    [] x = "installedInModel"      -> "INSTALLEDINMODEL"
    [] OTHER -> x

\* an edge record with its two ends exchanged
EdgeRow_Swapped(t, q) ==
  [start_uri |-> Str(t[3]), end_uri |-> Str(t[1]),
   type |-> Upper(q.prefix) \o "_" \o Upper(q.name), uri |-> Str(t[2])]

\* an edge record whose tag is not upper-cased
EdgeRow_NoUpper(t, q) ==
  [start_uri |-> Str(t[1]), end_uri |-> Str(t[3]),
   type |-> q.prefix \o "_" \o q.name, uri |-> Str(t[2])]

\* the edge record of export_to_csv; q is the result of qname(p), and
\* q.text.replace(":", "_").upper() is made from its two parts
EdgeRow(t, q) ==
  [start_uri |-> Str(t[1]), end_uri |-> Str(t[3]),
   type |-> Upper(q.prefix) \o "_" \o Upper(q.name), uri |-> Str(t[2])]

\* a writer that takes the columns from the first record and so fails when
\* there is none
to_csv_NeedsRecord(records, columns) ==
  [written |-> records # EmptyBag,
   header  |-> IF records = EmptyBag THEN <<>> ELSE columns,
   rows    |-> records]

\* pd.DataFrame(records).to_csv(path, index=False): the columns are the keys
\* of the records, so a frame made of no record has no column
to_csv(records, columns) ==
  [written |-> TRUE,
   header  |-> IF records = EmptyBag THEN <<>> ELSE columns,
   rows    |-> records]

NotWritten == [written |-> FALSE, header |-> <<>>, rows |-> EmptyBag]

(***************************************************************************)
(* State                                                                   *)
(***************************************************************************)
VARIABLES
  g,               \* the triples of the input rdflib Graph
  bindings,        \* its namespace manager: namespace IRI -> prefix
  first,           \* its store's order: the first rdf:type and rdfs:label object of each subject
  pc,              \* position in the function that was called
  todo,            \* triples the running "for s, p, o in g" has not yet reached
  todoNodes,       \* elements the running loop over a node set has not yet reached
  nodes,           \* the local set nodes (entity graph) / all_uris (export)
  vehicles,        \* the local set vehicles (bipartite graph)
  sensors,         \* the local set sensors (bipartite graph)
  nx_graph,        \* the networkx graph under construction, then returned
  nodes_data,      \* the list nodes_data, as a bag of records
  edges_data,      \* the list edges_data, as a bag of records
  processed_nodes, \* the local set processed_nodes
  csv,             \* the files nodes.csv and edges.csv
  calls,           \* number of entity projections started on this graph object
  prev,            \* the graph that the previous entity projection returned
  graph_size,      \* the argument of data_generator.generate_dataset
  it,              \* number of iterations the running loop over a list has completed
  question,        \* the argument of rag_demo.answer_question_with_kg, a sequence of characters
  intent,          \* its local variable intent
  results,         \* its local variable results
  queries_run,     \* the queries that run_sparql_query was called with, in order
  NEO4J_PASSWORD,  \* neo4j_loader's module constant, read from the environment
  fs,              \* the paths that exist in the file system
  script,          \* the statements of the Cypher script file, in file order
  call,            \* the function of neo4j_loader or command of cli that was called, with its arguments
  events,          \* the file checks, file reads and database operations done so far, in order
  db,              \* what the Neo4j database holds
  ret              \* what the function that was called returned or raised

vars == <<g, bindings, first, pc, todo, todoNodes, nodes, vehicles, sensors,
          nx_graph, nodes_data, edges_data, processed_nodes, csv, calls, prev,
          graph_size, it, question, intent, results, queries_run,
          NEO4J_PASSWORD, fs, script, call, events, db, ret>>

inputVars == <<g, first>>
exportVars == <<nodes_data, edges_data, processed_nodes, csv>>
bipVars == <<vehicles, sensors>>
callVars == <<calls, prev>>
\* the state of the functions outside the projection and export layer
genVars == <<graph_size, it>>
ragVars == <<question, intent, results, queries_run>>
loaderVars == <<NEO4J_PASSWORD, fs, script, call, events, db>>
otherVars == <<genVars, ragVars, loaderVars, ret>>
\* the locals and results of the projection and export layer
projVars == <<todo, todoNodes, nodes, bipVars, nx_graph, exportVars, callVars>>
\* what generate_dataset and answer_question_with_kg each leave alone
notGen == <<projVars, ragVars, loaderVars>>
notRag == <<projVars, genVars, loaderVars>>

\* number of times the caller projects the same graph object
MaxCalls == 2

InputGraphs == { G \in SUBSET Universe : Cardinality(G) <= MaxTriples } \cup {ScenarioA}

\* the orders in which a store holding G can yield the rdf:type objects
TypeChoices(G) ==
  { f \in [Subjects -> {EX_VehicleModel, EX_SensorModel, EX_Concept, None}] :
      \A s \in Subjects :
        IF objects(G, s, RDF_type) = {} THEN f[s] = None
        ELSE f[s] \in objects(G, s, RDF_type) }

\* the orders in which a store holding G can yield the rdfs:label objects
LabelChoices(G) ==
  { f \in [Subjects -> {CarA, SensorA, EmptyLabel, None}] :
      \A s \in Subjects :
        IF objects(G, s, RDFS_label) = {} THEN f[s] = None
        ELSE f[s] \in objects(G, s, RDFS_label) }

FirstChoices(G) ==
  { [type |-> ft, label |-> fl] : ft \in TypeChoices(G), fl \in LabelChoices(G) }

\* no projection or export is running and none has run
NoProjection ==
  /\ todo = {}
  /\ todoNodes = {}
  /\ nodes = {}
  /\ vehicles = {}
  /\ sensors = {}
  /\ nx_graph = EmptyGraph
  /\ nodes_data = EmptyBag
  /\ edges_data = EmptyBag
  /\ processed_nodes = {}
  /\ csv = [nodes |-> NotWritten, edges |-> NotWritten]
  /\ calls = 0
  /\ prev = EmptyGraph

\* nothing has returned or raised yet
NoReturn == "-"

\* generate_dataset is not running
NoGenerator == graph_size = "default" /\ it = 0

\* no function of neo4j_loader and no command of cli is running
NoCall ==
  /\ NEO4J_PASSWORD = "None" /\ fs = {} /\ script = <<>>
  /\ call = [fn |-> "-"] /\ events = <<>> /\ db = {}

\* answer_question_with_kg is not running
NoRag == question = <<>> /\ intent = "None" /\ results = {} /\ queries_run = <<>>

Init ==
  /\ g \in InputGraphs
  /\ bindings \in {NS_MAP, DefaultBindings}
  /\ first \in FirstChoices(g)
  /\ pc = "idle"
  /\ NoGenerator
  /\ NoRag
  /\ NoCall
  /\ ret = NoReturn
  /\ todo = {}
  /\ todoNodes = {}
  /\ nodes = {}
  /\ vehicles = {}
  /\ sensors = {}
  /\ nx_graph = EmptyGraph
  /\ nodes_data = EmptyBag
  /\ edges_data = EmptyBag
  /\ processed_nodes = {}
  /\ csv = [nodes |-> NotWritten, edges |-> NotWritten]
  /\ calls = 0
  /\ prev = EmptyGraph

(***************************************************************************)
(* to_networkx_entity_graph                                                *)
(***************************************************************************)
EntityCall ==
  /\ pc = "idle"
  /\ nx_graph' = EmptyGraph
  /\ nodes' = {}
  /\ todo' = g
  /\ pc' = "ent_collect"
  /\ calls' = 1
  /\ UNCHANGED <<inputVars, otherVars, prev, bindings, todoNodes, bipVars, exportVars>>

\* the caller keeps the returned graph and projects the same graph object
\* once more
EntityCallAgain ==
  /\ pc = "ent_done"
  /\ calls < MaxCalls
  /\ prev' = nx_graph
  /\ nx_graph' = EmptyGraph
  /\ nodes' = {}
  /\ todo' = g
  /\ pc' = "ent_collect"
  /\ calls' = calls + 1
  /\ UNCHANGED <<inputVars, otherVars, bindings, todoNodes, bipVars, exportVars>>

EntityCollectStep ==
  /\ pc = "ent_collect"
  /\ \E t \in todo :
       /\ nodes' = EntityCollect(nodes, t)
       /\ todo' = todo \ {t}
  /\ UNCHANGED <<inputVars, otherVars, callVars, bindings, pc, todoNodes, bipVars, nx_graph, exportVars>>

EntityCollectDone ==
  /\ pc = "ent_collect"
  /\ todo = {}
  /\ todoNodes' = nodes
  /\ pc' = "ent_nodes"
  /\ UNCHANGED <<inputVars, otherVars, callVars, bindings, todo, nodes, bipVars, nx_graph, exportVars>>

\* one iteration of the node pass; an exception that a resolver lets out
\* leaves the function
EntityAddNode ==
  /\ pc = "ent_nodes"
  /\ \E node \in todoNodes :
       LET attrs == EntityNodeAttrs(g, bindings, first, node)
       IN  IF Raises(attrs)
             THEN /\ pc' = "ent_raised"
                  /\ UNCHANGED <<nx_graph, todoNodes>>
             ELSE /\ nx_graph' = add_node(nx_graph, Str(node), attrs)
                  /\ todoNodes' = todoNodes \ {node}
                  /\ pc' = pc
  /\ UNCHANGED <<inputVars, otherVars, callVars, bindings, todo, nodes, bipVars, exportVars>>

EntityNodesDone ==
  /\ pc = "ent_nodes"
  /\ todoNodes = {}
  /\ todo' = g
  /\ pc' = "ent_edges"
  /\ UNCHANGED <<inputVars, otherVars, callVars, bindings, todoNodes, nodes, bipVars, nx_graph, exportVars>>

\* one iteration of the second pass; qname(p) raises ValueError out of the
\* function when p cannot be split
EntityEdgeStep ==
  /\ pc = "ent_edges"
  /\ \E t \in todo :
       /\ todo' = todo \ {t}
       /\ IF EntityEdgeTest(t)
            THEN LET q == qname(bindings, t[2])
                 IN  IF q.raised
                       THEN /\ pc' = "ent_raised"
                            /\ UNCHANGED <<bindings, nx_graph>>
                       ELSE /\ bindings' = q.bindings
                            /\ nx_graph' = add_edge(nx_graph, Str(t[1]), Str(t[3]),
                                                    [label |-> q.text, uri |-> Str(t[2])])
                            /\ pc' = pc
            ELSE UNCHANGED <<bindings, nx_graph, pc>>
  /\ UNCHANGED <<inputVars, otherVars, callVars, todoNodes, nodes, bipVars, exportVars>>

EntityReturn ==
  /\ pc = "ent_edges"
  /\ todo = {}
  /\ pc' = "ent_done"
  /\ UNCHANGED <<inputVars, otherVars, callVars, bindings, todo, todoNodes, nodes, bipVars, nx_graph, exportVars>>

(***************************************************************************)
(* to_networkx_bipartite_graph                                             *)
(***************************************************************************)
BipartiteCall ==
  /\ pc = "idle"
  /\ nx_graph' = EmptyGraph
  /\ vehicles' = Vehicles(g)
  /\ todoNodes' = Vehicles(g)
  /\ pc' = "bip_vehicles"
  /\ UNCHANGED <<inputVars, otherVars, callVars, bindings, todo, nodes, sensors, exportVars>>

BipartiteAddVehicle ==
  /\ pc = "bip_vehicles"
  /\ \E v \in todoNodes :
       LET attrs == VehicleAttrs(g, bindings, first, v)
       IN  IF Raises(attrs)
             THEN /\ pc' = "bip_raised"
                  /\ UNCHANGED <<nx_graph, todoNodes>>
             ELSE /\ nx_graph' = add_node(nx_graph, Str(v), attrs)
                  /\ todoNodes' = todoNodes \ {v}
                  /\ pc' = pc
  /\ UNCHANGED <<inputVars, otherVars, callVars, bindings, todo, nodes, bipVars, exportVars>>

BipartiteVehiclesDone ==
  /\ pc = "bip_vehicles"
  /\ todoNodes = {}
  /\ sensors' = Sensors(g)
  /\ todoNodes' = Sensors(g)
  /\ pc' = "bip_sensors"
  /\ UNCHANGED <<inputVars, otherVars, callVars, bindings, todo, nodes, vehicles, nx_graph, exportVars>>

BipartiteAddSensor ==
  /\ pc = "bip_sensors"
  /\ \E s \in todoNodes :
       LET attrs == SensorAttrs(g, bindings, first, s)
       IN  IF Raises(attrs)
             THEN /\ pc' = "bip_raised"
                  /\ UNCHANGED <<nx_graph, todoNodes>>
             ELSE /\ nx_graph' = add_node(nx_graph, Str(s), attrs)
                  /\ todoNodes' = todoNodes \ {s}
                  /\ pc' = pc
  /\ UNCHANGED <<inputVars, otherVars, callVars, bindings, todo, nodes, bipVars, exportVars>>

BipartiteSensorsDone ==
  /\ pc = "bip_sensors"
  /\ todoNodes = {}
  /\ todo' = CompatiblePairs(g, vehicles)
  /\ pc' = "bip_edges"
  /\ UNCHANGED <<inputVars, otherVars, callVars, bindings, todoNodes, nodes, bipVars, nx_graph, exportVars>>

BipartiteEdgeStep ==
  /\ pc = "bip_edges"
  /\ \E t \in todo :
       /\ todo' = todo \ {t}
       /\ nx_graph' = IF BipartiteEdgeTest(nx_graph, t[3])
                        THEN add_edge(nx_graph, Str(t[1]), Str(t[3]),
                                      [label |-> "compatibleWith"])
                        ELSE nx_graph
  /\ UNCHANGED <<inputVars, otherVars, callVars, bindings, pc, todoNodes, nodes, bipVars, exportVars>>

BipartiteReturn ==
  /\ pc = "bip_edges"
  /\ todo = {}
  /\ pc' = "bip_done"
  /\ UNCHANGED <<inputVars, otherVars, callVars, bindings, todo, todoNodes, nodes, bipVars, nx_graph, exportVars>>

(***************************************************************************)
(* export_to_csv                                                           *)
(***************************************************************************)
ExportCall ==
  /\ pc = "idle"
  /\ nodes_data' = EmptyBag
  /\ edges_data' = EmptyBag
  /\ processed_nodes' = {}
  /\ nodes' = {}
  /\ todo' = g
  /\ pc' = "exp_collect"
  /\ UNCHANGED <<inputVars, otherVars, callVars, bindings, todoNodes, bipVars, nx_graph, csv>>

\* the caller keeps the entity graph that its first projection returned and
\* exports the same graph object
ExportCallAfterEntity ==
  /\ pc = "ent_done"
  /\ calls = 1
  /\ nodes_data' = EmptyBag
  /\ edges_data' = EmptyBag
  /\ processed_nodes' = {}
  /\ nodes' = {}
  /\ todo' = g
  /\ pc' = "exp_collect"
  /\ UNCHANGED <<inputVars, otherVars, callVars, bindings, todoNodes, bipVars, nx_graph, csv>>

ExportCollectStep ==
  /\ pc = "exp_collect"
  /\ \E t \in todo :
       /\ nodes' = ExportCollect(nodes, t)
       /\ todo' = todo \ {t}
  /\ UNCHANGED <<inputVars, otherVars, callVars, bindings, pc, todoNodes, bipVars, nx_graph, exportVars>>

ExportCollectDone ==
  /\ pc = "exp_collect"
  /\ todo = {}
  /\ todoNodes' = nodes
  /\ pc' = "exp_nodes"
  /\ UNCHANGED <<inputVars, otherVars, callVars, bindings, todo, nodes, bipVars, nx_graph, exportVars>>

ExportNodeStep ==
  /\ pc = "exp_nodes"
  /\ \E uri \in todoNodes :
       LET row == NodeRow(g, bindings, first, uri)
       IN  IF ExportNodeTest(processed_nodes, uri) /\ Raises(row)
             THEN /\ pc' = "exp_raised"
                  /\ UNCHANGED <<todoNodes, nodes_data, processed_nodes>>
             ELSE /\ todoNodes' = todoNodes \ {uri}
                  /\ pc' = pc
                  /\ IF ExportNodeTest(processed_nodes, uri)
                       THEN /\ nodes_data' = nodes_data (+) SetToBag({row})
                            /\ processed_nodes' = processed_nodes \cup {uri}
                       ELSE UNCHANGED <<nodes_data, processed_nodes>>
  /\ UNCHANGED <<inputVars, otherVars, callVars, bindings, todo, nodes, bipVars, nx_graph, edges_data, csv>>

ExportNodesDone ==
  /\ pc = "exp_nodes"
  /\ todoNodes = {}
  /\ todo' = g
  /\ pc' = "exp_edges"
  /\ UNCHANGED <<inputVars, otherVars, callVars, bindings, todoNodes, nodes, bipVars, nx_graph, exportVars>>

\* one iteration of the edge loop; qname(p) raises ValueError out of the
\* function, before any file is written, when p cannot be split
ExportEdgeStep ==
  /\ pc = "exp_edges"
  /\ \E t \in todo :
       /\ todo' = todo \ {t}
       /\ IF ExportEdgeTest(t)
            THEN LET q == qname(bindings, t[2])
                 IN  IF q.raised
                       THEN /\ pc' = "exp_raised"
                            /\ UNCHANGED <<bindings, edges_data>>
                       ELSE /\ bindings' = q.bindings
                            /\ edges_data' = edges_data (+) SetToBag({EdgeRow(t, q)})
                            /\ pc' = pc
            ELSE UNCHANGED <<bindings, edges_data, pc>>
  /\ UNCHANGED <<inputVars, otherVars, callVars, todoNodes, nodes, bipVars, nx_graph, nodes_data,
                 processed_nodes, csv>>

\* the two DataFrames are built and written, and the function returns
ExportWrite ==
  /\ pc = "exp_edges"
  /\ todo = {}
  /\ csv' = [nodes |-> to_csv(nodes_data, <<"uri", "label", "type">>),
             edges |-> to_csv(edges_data, <<"start_uri", "end_uri", "type", "uri">>)]
  /\ pc' = "exp_done"
  /\ UNCHANGED <<inputVars, otherVars, callVars, bindings, todo, todoNodes, nodes, bipVars, nx_graph,
                 nodes_data, edges_data, processed_nodes>>

Next ==
  \/ EntityCall \/ EntityCollectStep \/ EntityCollectDone \/ EntityAddNode
  \/ EntityNodesDone \/ EntityEdgeStep \/ EntityReturn \/ EntityCallAgain
  \/ BipartiteCall \/ BipartiteAddVehicle \/ BipartiteVehiclesDone
  \/ BipartiteAddSensor \/ BipartiteSensorsDone \/ BipartiteEdgeStep \/ BipartiteReturn
  \/ ExportCall \/ ExportCallAfterEntity \/ ExportCollectStep \/ ExportCollectDone
  \/ ExportNodeStep \/ ExportNodesDone \/ ExportEdgeStep \/ ExportWrite

Spec == Init /\ [][Next]_vars

TypeOK ==
  /\ g \subseteq Universe
  /\ pc \in {"idle", "ent_collect", "ent_nodes", "ent_edges", "ent_done", "ent_raised",
             "bip_vehicles", "bip_sensors", "bip_edges", "bip_done", "bip_raised",
             "exp_collect", "exp_nodes", "exp_edges", "exp_done", "exp_raised"}
  /\ todo \subseteq g
  /\ todoNodes \subseteq Terms

(***************************************************************************)
(* Properties                                                              *)
(***************************************************************************)
\* the URIRefs that occur as a subject or as an object of a triple of G
URIEnds(G) == { u \in UNION { {t[1], t[3]} : t \in G } : IsURIRef(u) }

\* the triples of G whose subject and object are both URIRefs
ObjectTriples(G) == { t \in G : IsURIRef(t[1]) /\ IsURIRef(t[3]) }

NodeIds == DOMAIN nx_graph.nodes
EdgeKeys == DOMAIN nx_graph.edges

\* C1 (node completeness): the node set of the graph returned by
\* to_networkx_entity_graph is exactly the set of the identifiers of the
\* URIRefs that are a subject or an object of some triple, one node per
\* URIRef, whether or not the URIRef has a declared rdf:type.
C1_NodeCompleteness ==
  pc = "ent_done" =>
    /\ NodeIds = { Str(u) : u \in URIEnds(g) }
    /\ Cardinality(NodeIds) = Cardinality(URIEnds(g))

\* an entity graph was returned that has a node for a URIRef that is never a
\* subject and has no rdf:type
C1_Witness ==
  /\ pc = "ent_done"
  /\ \E u \in URIEnds(g) :
       /\ ~(\E t \in g : t[1] = u)
       /\ Str(u) \in NodeIds

\* C2 (edge soundness): in both projections, while edges are added and in
\* the returned graph, both endpoints of every edge are nodes that carry the
\* label and type attributes given to them by the node passes: no edge
\* insertion has created a node.
C2_EdgeSoundness ==
  pc \in {"ent_edges", "ent_done", "ent_raised", "bip_edges", "bip_done"} =>
    /\ \A e \in EdgeKeys : e \subseteq NodeIds
    /\ \A n \in NodeIds : {"label", "type"} \subseteq DOMAIN nx_graph.nodes[n]

\* a bipartite graph was returned that has an edge, from a graph that also
\* holds a compatibleWithModel triple whose target is not a node
C2_Witness ==
  /\ pc = "bip_done"
  /\ EdgeKeys # {}
  /\ \E t \in CompatiblePairs(g, vehicles) : Str(t[3]) \notin NodeIds

\* side tag of a node of the bipartite graph
Side(n) == nx_graph.nodes[n].bipartite

\* C3 (bipartite purity), as claimed: every edge of the graph returned by
\* to_networkx_bipartite_graph joins one node of side 0 and one node of
\* side 1; there is no same-side edge and no self-loop.
C3_BipartitePurity ==
  pc = "bip_done" =>
    \A e \in EdgeKeys :
      \E u \in e : \E v \in e : Side(u) = 0 /\ Side(v) = 1

\* C4 (bipartite edge set), as claimed: the edges of the graph returned by
\* to_networkx_bipartite_graph are exactly the pairs {v, s} with v declared a
\* VehicleModel, s declared a SensorModel and (v, compatibleWithModel, s) a
\* triple.
C4_BipartiteEdgeSet ==
  pc = "bip_done" =>
    EdgeKeys = { {Str(t[1]), Str(t[3])} :
                   t \in { x \in g : /\ x[2] = EX_compatibleWithModel
                                     /\ x[1] \in Vehicles(g)
                                     /\ x[3] \in Sensors(g) } }

\* C5 (sides), as claimed: in the graph returned by
\* to_networkx_bipartite_graph every resource declared a VehicleModel is a
\* node of side 0 and type VehicleModel, and every resource declared a
\* SensorModel is a node of side 1 and type SensorModel, also when a resource
\* is declared in both classes.
C5_SidesAsClaimed ==
  pc = "bip_done" =>
    /\ \A v \in Vehicles(g) :
         /\ Str(v) \in NodeIds
         /\ Side(Str(v)) = 0
         /\ nx_graph.nodes[Str(v)].type = "VehicleModel"
    /\ \A x \in Sensors(g) :
         /\ Str(x) \in NodeIds
         /\ Side(Str(x)) = 1
         /\ nx_graph.nodes[Str(x)].type = "SensorModel"

\* C5, amended: every resource declared a SensorModel is a node of side 1
\* and type SensorModel; every resource declared a VehicleModel whose
\* identifier is not that of a declared SensorModel is a node of side 0 and
\* type VehicleModel; a resource declared in both classes is a single node
\* of side 1 and type SensorModel.
C5_Sides ==
  pc = "bip_done" =>
    /\ \A v \in Vehicles(g) :
         /\ Str(v) \in NodeIds
         /\ Str(v) \notin { Str(x) : x \in Sensors(g) } =>
              /\ Side(Str(v)) = 0
              /\ nx_graph.nodes[Str(v)].type = "VehicleModel"
    /\ \A x \in Sensors(g) :
         /\ Str(x) \in NodeIds
         /\ Side(Str(x)) = 1
         /\ nx_graph.nodes[Str(x)].type = "SensorModel"

\* a bipartite graph was returned for a graph in which one resource is
\* declared in both classes and another one is a VehicleModel only
C5_Witness ==
  /\ pc = "bip_done"
  /\ Vehicles(g) \cap Sensors(g) # {}
  /\ Vehicles(g) \ Sensors(g) # {}

\* the triple taken by the loop iteration of a step
Taken == todo \ todo'

\* C6 (literal exclusion): every node identifier of the entity projection
\* and every uri of an exported node row is the identifier of a URIRef of the
\* triple set, never a value that only a literal has, and a loop iteration
\* that takes a triple whose object is a literal adds no entity-graph edge
\* and no exported edge row.
C6_LiteralExclusion ==
  [][ /\ (pc' \in {"ent_edges", "ent_done"} =>
            DOMAIN nx_graph'.nodes \subseteq { Str(u) : u \in URIEnds(g) })
      /\ (pc' \in {"exp_edges", "exp_done"} =>
            { r.uri : r \in BagToSet(nodes_data') } \subseteq { Str(u) : u \in URIEnds(g) })
      /\ (pc' = "exp_done" =>
            { r.uri : r \in BagToSet(csv'.nodes.rows) } \subseteq { Str(u) : u \in URIEnds(g) })
      /\ \A t \in Taken :
           (pc \in {"ent_edges", "exp_edges"} /\ t[3].kind = "lit") =>
             /\ nx_graph' = nx_graph
             /\ edges_data' = edges_data
    ]_vars

\* an export has returned for a graph that holds a literal-valued triple
\* next to a URI-to-URI triple, and the literal's text is not a uri of a row
C6_Witness ==
  /\ pc = "exp_done"
  /\ \E t \in g : /\ t[3].kind = "lit"
                  /\ Str(t[3]) \notin { r.uri : r \in BagToSet(csv.nodes.rows) }
  /\ csv.edges.rows # EmptyBag

\* C7 (scenario A), as claimed: for the triple set of scenario A the entity
\* projection returns exactly 2 nodes and exactly 1 edge, whose relation is
\* compatibleWithModel, and the bipartite projection returns v1 on side 0, s1
\* on side 1 and exactly 1 edge.
C7_ScenarioAAsClaimed ==
  g = ScenarioA =>
    /\ pc = "ent_done" =>
         /\ Cardinality(NodeIds) = 2
         /\ Cardinality(EdgeKeys) = 1
         /\ \A e \in EdgeKeys : nx_graph.edges[e].uri = Str(EX_compatibleWithModel)
    /\ pc = "bip_done" =>
         /\ Side(Str(v1)) = 0
         /\ Side(Str(s1)) = 1
         /\ Cardinality(EdgeKeys) = 1

\* C7, amended: for the triple set of scenario A the entity projection
\* returns exactly 4 nodes (v1, s1 and the two classes VehicleModel and
\* SensorModel, which are URI objects of the rdf:type triples) and exactly 3
\* edges: v1-s1 whose relation is compatibleWithModel (label: its qualified
\* name, uri: its identifier) and the two rdf:type edges v1-VehicleModel and
\* s1-SensorModel; the bipartite projection returns exactly the nodes v1 on
\* side 0 and s1 on side 1 and exactly 1 edge, between them.
C7_ScenarioA ==
  g = ScenarioA =>
    /\ pc = "ent_done" =>
         /\ NodeIds = {Str(v1), Str(s1), Str(EX_VehicleModel), Str(EX_SensorModel)}
         /\ Cardinality(NodeIds) = 4
         /\ EdgeKeys = { {Str(v1), Str(s1)}, {Str(v1), Str(EX_VehicleModel)},
                         {Str(s1), Str(EX_SensorModel)} }
         /\ Cardinality(EdgeKeys) = 3
         /\ nx_graph.edges[{Str(v1), Str(s1)}].uri = Str(EX_compatibleWithModel)
         /\ nx_graph.edges[{Str(v1), Str(s1)}].label \in
              { "ex:compatibleWithModel", "ns1:compatibleWithModel" }
         /\ nx_graph.edges[{Str(v1), Str(EX_VehicleModel)}].uri = Str(RDF_type)
         /\ nx_graph.edges[{Str(s1), Str(EX_SensorModel)}].uri = Str(RDF_type)
    /\ pc = "bip_done" =>
         /\ NodeIds = {Str(v1), Str(s1)}
         /\ Side(Str(v1)) = 0
         /\ Side(Str(s1)) = 1
         /\ EdgeKeys = {{Str(v1), Str(s1)}}

\* the entity projection of scenario A has returned its graph
C7_Witness ==
  /\ g = ScenarioA
  /\ pc = "ent_done"
  /\ {Str(v1), Str(s1)} \in EdgeKeys

\* the bipartite projection of scenario A has returned its graph
C7_WitnessBipartite == g = ScenarioA /\ pc = "bip_done" /\ EdgeKeys # {}

\* the unordered pair of identifiers that a triple connects
Pair(t) == {Str(t[1]), Str(t[3])}

\* C8 (parallel edges collapse): in to_networkx_entity_graph the edges of
\* the returned graph are exactly the distinct unordered pairs {s, o} of the
\* triples with URIRef subject and URIRef object, one edge per pair whatever
\* the number and direction of the predicates; the attributes of an edge are
\* the qualified name and identifier of a predicate that connects the pair,
\* and each iteration of the edge loop leaves on the pair it takes the
\* attributes of its own predicate (the last one processed wins).
C8_ParallelEdgesCollapse ==
  [][ /\ (pc' = "ent_done" =>
            /\ DOMAIN nx_graph'.edges = { Pair(t) : t \in ObjectTriples(g) }
            /\ \A e \in DOMAIN nx_graph'.edges :
                 \E t \in ObjectTriples(g) :
                   /\ Pair(t) = e
                   /\ nx_graph'.edges[e] =
                        [label |-> qname(bindings', t[2]).text, uri |-> Str(t[2])])
      /\ \A t \in Taken :
           (pc = "ent_edges" /\ pc' = "ent_edges" /\ EntityEdgeTest(t)) =>
             /\ Pair(t) \in DOMAIN nx_graph'.edges
             /\ nx_graph'.edges[Pair(t)] =
                  [label |-> qname(bindings', t[2]).text, uri |-> Str(t[2])]
    ]_vars

\* an entity graph was returned for a graph in which two predicates connect
\* the same pair, in opposite directions, and the pair has one edge
C8_Witness ==
  /\ pc = "ent_done"
  /\ \E t1 \in ObjectTriples(g) : \E t2 \in ObjectTriples(g) :
       /\ t1[2] # t2[2]
       /\ t1[1] = t2[3] /\ t1[3] = t2[1] /\ t1[1] # t1[3]
       /\ Pair(t1) \in EdgeKeys
  /\ Cardinality(EdgeKeys) < Cardinality(ObjectTriples(g))

\* C9 (one edge row per triple): export_to_csv writes exactly one edge row
\* per triple whose subject and object are both URIRefs, with start_uri the
\* subject, end_uri the object and uri the predicate; no such triple is
\* merged with another or dropped.
C9_OneEdgeRowPerTriple ==
  pc = "exp_done" =>
    /\ csv.edges.rows = edges_data
    /\ BagCardinality(edges_data) = Cardinality(ObjectTriples(g))
    /\ { <<r.start_uri, r.uri, r.end_uri>> : r \in BagToSet(edges_data) } =
         { <<Str(t[1]), Str(t[2]), Str(t[3])>> : t \in ObjectTriples(g) }

\* an export has returned two edge rows for two triples that connect the
\* same subject and object under different predicates
C9_Witness ==
  /\ pc = "exp_done"
  /\ \E r1 \in BagToSet(csv.edges.rows) : \E r2 \in BagToSet(csv.edges.rows) :
       /\ r1.start_uri = r2.start_uri
       /\ r1.end_uri = r2.end_uri
       /\ r1.uri # r2.uri

\* C10 (one node row per URI): export_to_csv writes exactly one node row per
\* distinct URIRef that is a subject or an object of some triple: no two
\* node rows share a uri and no such URIRef is missing.
C10_OneNodeRowPerURI ==
  pc = "exp_done" =>
    /\ csv.nodes.rows = nodes_data
    /\ { r.uri : r \in BagToSet(nodes_data) } = { Str(u) : u \in URIEnds(g) }
    /\ BagCardinality(nodes_data) = Cardinality(URIEnds(g))

\* an export has returned node rows for a graph in which a URIRef occurs in
\* several triples and another one occurs as an object only
C10_Witness ==
  /\ pc = "exp_done"
  /\ \E u \in URIEnds(g) : Cardinality({ t \in g : u \in {t[1], t[3]} }) >= 2
  /\ \E u \in URIEnds(g) : ~(\E t \in g : t[1] = u)
  /\ BagCardinality(csv.nodes.rows) >= 2

\* the node rows that export_to_csv has made for the URIRef u
RowsOf(u) == { r \in BagToSet(nodes_data) : r.uri = Str(u) }

\* the URIRef never occurs as the subject of a triple
NeverSubject(G, u) == ~(\E t \in G : t[1] = u)

\* the node loop of export_to_csv has ended and the edge loop has not begun:
\* nodes_data is complete and the bindings are still those of the call
NodeRowsMade == pc = "exp_edges" /\ todo = g

EntityNodesMade == pc = "ent_edges" /\ todo = g

\* the three-step fallback of the specification's label resolver: the text
\* of the explicit label, else the qualified name under a matching binding,
\* else the trailing path segment
ThreeStepLabel(G, b, fst, u) ==
  IF objects(G, u, RDFS_label) # {} THEN Str(value(G, fst, u, RDFS_label))
  ELSE IF IsValidURI(u) /\ CanSplit(u) /\ b[u.ns] # NoPrefix THEN b[u.ns] \o ":" \o u.name
  ELSE LastSegment(u)

\* C12 (label fallback order), as claimed: the label that nx_convert.get_label
\* gives to a node of the entity graph is the text of its rdfs:label if it has
\* one, else its qualified name if a binding matches, else the trailing path
\* segment of its identifier.
C12_LabelFallback ==
  EntityNodesMade =>
    \A u \in URIEnds(g) :
      nx_graph.nodes[Str(u)].label = ThreeStepLabel(g, bindings, first, u)

\* C13 (exporter's label resolver), as claimed: the label that
\* rdf_utils.get_node_label gives to a node row is the text of the resource's
\* rdfs:label whenever it has one, an empty text included; otherwise the
\* prefixed qualified name when a bound namespace matches; otherwise the part
\* of the identifier after its last "/".
C13_NodeLabel ==
  NodeRowsMade =>
    \A u \in URIEnds(g) : \A r \in RowsOf(u) :
      r.label = ThreeStepLabel(g, bindings, first, u)

\* C14 (type labels), as claimed: the type label is the sentinel 'Resource'
\* exactly when the resource has no declared rdf:type, and the type that
\* nx_convert.get_type_label gives to a node of the entity graph is the one
\* that rdf_utils.get_type_label returns for the same resource.
C14_TypeLabelsAgree ==
  EntityNodesMade =>
    \A u \in URIEnds(g) :
      /\ nx_graph.nodes[Str(u)].type = rdf_utils_get_type_label(g, bindings, first, u)
      /\ nx_graph.nodes[Str(u)].type = "Resource" <=> objects(g, u, RDF_type) = {}
      /\ rdf_utils_get_type_label(g, bindings, first, u) = "Resource"
           <=> objects(g, u, RDF_type) = {}

\* the terms the resolvers are called for: the ends of the triples and the
\* declared types
ResolvedTerms(G) == UNION { {t[1], t[3]} : t \in G }

\* C15 (resolution never raises): for every graph and every identifier (no
\* label, no matching binding, an identifier that cannot be split, an invalid
\* identifier, no declared type) get_label, get_node_label and both
\* get_type_label functions return a string, and no node pass of the three
\* functions is left by an exception: a call raises only in its edge loop,
\* out of qname.
C15_ResolutionNeverRaises ==
  [][ /\ \A u \in ResolvedTerms(g) :
           /\ get_label(g, bindings, first, u) # Exc
           /\ get_type_label(g, bindings, first, u) # Exc
           /\ get_node_label(g, bindings, first, u) # Exc
           /\ rdf_utils_get_type_label(g, bindings, first, u) # Exc
      /\ pc' \in {"ent_raised", "bip_raised", "exp_raised"} =>
           pc \in {"ent_edges", "exp_edges", "ent_raised", "bip_raised", "exp_raised"}
    ]_vars

\* the entity node pass has ended for a graph without bindings that holds an
\* invalid identifier and one that cannot be split, both untyped and without
\* label, and each has got a label
C15_Witness ==
  /\ EntityNodesMade
  /\ {EX_my_thing, EX_bad} \subseteq URIEnds(g)
  /\ bindings[EXns] = NoPrefix
  /\ nx_graph.nodes[Str(EX_my_thing)].label = Str(EX_my_thing)
  /\ nx_graph.nodes[Str(EX_bad)].type = "Resource"

\* C16 (empty triple set): on an empty triple set no call raises, the two
\* projections return graphs with no node and no edge, and export_to_csv
\* writes its two files with zero node rows and zero edge rows.
C16_EmptyTripleSet ==
  g = {} =>
    /\ pc \notin {"ent_raised", "bip_raised", "exp_raised"}
    /\ pc \in {"ent_done", "bip_done"} => (NodeIds = {} /\ EdgeKeys = {})
    /\ pc = "exp_done" =>
         /\ csv.nodes.written /\ csv.edges.written
         /\ csv.nodes.rows = EmptyBag /\ csv.edges.rows = EmptyBag

\* export_to_csv has returned for the empty triple set
C16_Witness == g = {} /\ pc = "exp_done" /\ csv.nodes.written

\* the two projections have returned for the empty triple set
C16_WitnessProjections == g = {} /\ pc \in {"ent_done", "bip_done"}

\* C17 (idempotence), as claimed: a second entity projection of the same
\* graph object returns the same node set, the same edge set and the same
\* node attributes (label, type, uri, kind) as the one before it.
C17_Idempotence ==
  (pc = "ent_done" /\ calls >= 2) =>
    /\ DOMAIN nx_graph.nodes = DOMAIN prev.nodes
    /\ DOMAIN nx_graph.edges = DOMAIN prev.edges
    /\ \A n \in DOMAIN nx_graph.nodes : nx_graph.nodes[n] = prev.nodes[n]

\* C18 (read-only input), as claimed: no step of the entity projection, of
\* the bipartite projection or of the CSV export changes the triples or the
\* namespace-prefix bindings of the input graph.
C18_ReadOnlyInput == [][g' = g /\ bindings' = bindings]_vars

\* C19 (self-loops): a triple of to_networkx_entity_graph's input whose
\* subject and object are the same URIRef gives a self-loop edge on that
\* node, carrying the identifier of a predicate that links the node to
\* itself, and the self-loop is in the returned graph.
C19_SelfLoops ==
  pc = "ent_done" =>
    \A t \in ObjectTriples(g) :
      t[1] = t[3] =>
        /\ {Str(t[1])} \in EdgeKeys
        /\ \E x \in ObjectTriples(g) :
             x[1] = t[1] /\ x[3] = t[1] /\ nx_graph.edges[{Str(t[1])}].uri = Str(x[2])

\* an entity graph was returned with a self-loop next to another edge
C19_Witness ==
  /\ pc = "ent_done"
  /\ \E t \in ObjectTriples(g) : t[1] = t[3] /\ {Str(t[1])} \in EdgeKeys
  /\ Cardinality(EdgeKeys) >= 2

\* the relation tag of a predicate under the bindings b: its qualified name
\* with ":" replaced by "_", in upper case
TagOf(b, p) ==
  CASE p = RDF_type -> "RDF_TYPE"
    [] p = EX_compatibleWithModel /\ b[EXns] = "ex"  -> "EX_COMPATIBLEWITHMODEL"
    [] p = EX_compatibleWithModel /\ b[EXns] = "ns1" -> "NS1_COMPATIBLEWITHMODEL"
    [] p = EX_installedInModel /\ b[EXns] = "ex"     -> "EX_INSTALLEDINMODEL"
    [] p = EX_installedInModel /\ b[EXns] = "ns1"    -> "NS1_INSTALLEDINMODEL"
    [] OTHER -> "?"

\* C20 (relation tag): in every edge row that export_to_csv writes, the
\* relation tag 'type' is the qualified name of the row's predicate with the
\* ":" replaced by "_" and upper-cased, and 'uri' is the identifier of the
\* predicate, unchanged.
C20_RelationTag ==
  pc = "exp_done" =>
    /\ \A r \in BagToSet(csv.edges.rows) :
         \E t \in ObjectTriples(g) :
           /\ r.start_uri = Str(t[1]) /\ r.end_uri = Str(t[3])
           /\ r.uri = Str(t[2])
           /\ r.type = TagOf(bindings, t[2])
    /\ \A t \in ObjectTriples(g) :
         \E r \in BagToSet(csv.edges.rows) :
           /\ r.start_uri = Str(t[1]) /\ r.end_uri = Str(t[3])
           /\ r.uri = Str(t[2])
           /\ r.type = TagOf(bindings, t[2])

\* an export has returned with an edge row tagged under a bound prefix and
\* one tagged RDF_TYPE
C20_Witness ==
  /\ pc = "exp_done"
  /\ \E r \in BagToSet(csv.edges.rows) :
       r.type = "EX_COMPATIBLEWITHMODEL" /\ r.uri = Str(EX_compatibleWithModel)
  /\ \E r \in BagToSet(csv.edges.rows) : r.type = "RDF_TYPE"

\* an export has returned with an edge row tagged under a generated prefix
C20_WitnessGenerated ==
  /\ pc = "exp_done"
  /\ \E r \in BagToSet(csv.edges.rows) : r.type = "NS1_INSTALLEDINMODEL"

\* C21 (headers), as claimed: whatever the triple set, the nodes file that
\* export_to_csv writes has the header uri,label,type and the edges file the
\* header start_uri,end_uri,type,uri, also when a file has no row.
C21_Headers ==
  pc = "exp_done" =>
    /\ csv.nodes.header = <<"uri", "label", "type">>
    /\ csv.edges.header = <<"start_uri", "end_uri", "type", "uri">>

(***************************************************************************)
(* data_generator.generate_dataset.  The graph g is built by g.add, one    *)
(* iteration of one loop of the function per step; the dicts and lists of  *)
(* the function are sequences in their insertion order, and a Literal is   *)
(* its lexical form (its datatype is not kept).                            *)
(***************************************************************************)
DTCns  == "http://example.com/dtc/"
PROTns == "http://example.com/protocol/"
UNITns == "http://example.com/unit/"

EX(name)   == URIRef(EXns, name)
SEN(name)  == URIRef(SENns, name)
VEH(name)  == URIRef(VEHns, name)
DTC(name)  == URIRef(DTCns, name)
PROT(name) == URIRef(PROTns, name)
UNIT(name) == URIRef(UNITns, name)
RDFS(name) == URIRef(RDFSns, name)

\* Python's None in a tuple of sensor_models
PyNone == "None"

\* the value of a dict, kept as a sequence of <<key, value, ...>> tuples
Entry(dict, key) == dict[CHOOSE i \in 1..Len(dict) : dict[i][1] = key]

create_ontology ==
  { Triple(EX("SensorType"), RDFS("subClassOf"), EX("Concept")),
    Triple(EX("Subsystem"), RDFS("subClassOf"), EX("Concept")),
    Triple(EX("Protocol"), RDFS("subClassOf"), EX("Concept")),
    Triple(EX("Component"), RDFS("subClassOf"), RDFS("Resource")),
    Triple(EX("VehicleModel"), RDFS("subClassOf"), EX("Component")),
    Triple(EX("SensorModel"), RDFS("subClassOf"), EX("Component")),
    Triple(EX("SensorInstance"), RDFS("subClassOf"), EX("Component")),
    Triple(EX("ECU"), RDFS("subClassOf"), EX("Component")),
    Triple(EX("SensorType"), RDFS_label, Literal("Sensor Type")),
    Triple(EX("SensorModel"), RDFS_label, Literal("Sensor Model")),
    Triple(EX("SensorInstance"), RDFS_label, Literal("Sensor Instance")),
    Triple(EX("Protocol"), RDFS_label, Literal("Protocol")) }

manufacturers ==
  << <<"Bosch", EX("Bosch")>>,
   <<"Continental", EX("Continental")>>,
   <<"Denso", EX("Denso")>> >>

vehicle_mfrs ==
  << <<"Toyota", EX("Toyota")>>,
   <<"Volkswagen", EX("Volkswagen")>> >>

locations ==
  << <<"EngineBay", EX("EngineBay")>>,
   <<"Interior", EX("Interior")>>,
   <<"Exterior", EX("Exterior")>>,
   <<"Wheel", EX("Wheel")>> >>

subsystems ==
  << <<"Powertrain", EX("Powertrain")>>,
   <<"Safety", EX("Safety")>> >>

\* the two labels that follow the subsystems dict
subsystem_labels ==
  { Triple(EX("Powertrain"), RDFS_label, Literal("Powertrain Control")),
    Triple(EX("Safety"), RDFS_label, Literal("Safety Systems")) }

\* name, (uri, label, bandwidth), and the comment the loop looks up by name
protocols ==
  << <<"CAN", PROT("CAN"), "CAN Bus", "1000", "Controller Area Network, a robust vehicle bus standard designed to allow microcontrollers and devices to communicate with each other's applications without a host computer.">>,
   <<"LIN", PROT("LIN"), "LIN Bus", "20", "Local Interconnect Network, a serial network protocol used for communication between components in vehicles.">>,
   <<"FlexRay", PROT("FlexRay"), "FlexRay", "10000", "A high-speed, deterministic, and fault-tolerant bus system for automotive use.">> >>

units ==
  << <<"Hz", UNIT("Hz")>>,
   <<"W", UNIT("W")>>,
   <<"C", UNIT("Celsius")>>,
   <<"kPa", UNIT("kPa")>>,
   <<"g", UNIT("G")>>,
   <<"V", UNIT("V")>>,
   <<"%", UNIT("Percent")>>,
   <<"km/h", UNIT("KPH")>> >>

sensor_types ==
  << <<"TemperatureSensor", EX("TemperatureSensor"), EX("Temperature")>>,
   <<"PressureSensor", EX("PressureSensor"), EX("Pressure")>>,
   <<"SpeedSensor", EX("SpeedSensor"), EX("Speed")>>,
   <<"PositionSensor", EX("PositionSensor"), EX("Position")>>,
   <<"OxygenSensor", EX("OxygenSensor"), EX("OxygenRatio")>>,
   <<"KnockSensor", EX("KnockSensor"), EX("Vibration")>>,
   <<"AirFlowSensor", EX("AirFlowSensor"), EX("AirFlow")>>,
   <<"AccelerationSensor", EX("AccelerationSensor"), EX("Acceleration")>>,
   <<"RadarSensor", EX("RadarSensor"), EX("Distance")>>,
   <<"ImageSensor", EX("ImageSensor"), EX("Image")>>,
   <<"LightSensor", EX("LightSensor"), EX("Luminance")>> >>

dtcs ==
  << <<"P0135", DTC("P0135"), "O2 Sensor Heater Circuit Malfunction", "Indicates a malfunction in the heater circuit of the primary oxygen sensor (Bank 1, Sensor 1).">>,
   <<"P0325", DTC("P0325"), "Knock Sensor 1 Circuit Malfunction", "Indicates that the Engine Control Module (ECM) has detected a problem with the knock sensor circuit.">>,
   <<"P0501", DTC("P0501"), "Vehicle Speed Sensor Range/Performance", "Indicates that the vehicle speed sensor is not providing a plausible signal.">>,
   <<"P0452", DTC("P0452"), "Evaporative Emission System Pressure Sensor/Switch Low", "Indicates that the fuel tank pressure sensor input is lower than the normal operating range.">> >>

sensor_models ==
  << <<"WSS-MR-3", "WSS-MR-3 Magnetoresistive Wheel Speed Sensor", "Bosch", "SpeedSensor", "CAN", "100", "0.3", "35.0", "0.5", "0", "250", "P0501">>,
   <<"CPS-HS-5", "CPS-HS-5 Hall-Effect Crankshaft Sensor", "Continental", "PositionSensor", "CAN", "1000", "0.5", "45.0", "0.1", "0", "8000", PyNone>>,
   <<"BOS-O2-H1", "BOS-O2-H1 Heated O2 Sensor", "Bosch", "OxygenSensor", "CAN", "50", "8.0", "55.0", "2.0", "0.1", "1.1", "P0135">>,
   <<"KS-PZ-2", "KS-PZ-2 Piezo Knock Sensor", "Denso", "KnockSensor", "CAN", "5000", "0.2", "30.0", "3.0", "0", "50", "P0325">>,
   <<"TPMS-L4", "TPMS-L4 Tire Pressure Monitor", "Continental", "PressureSensor", "LIN", "0.1", "0.05", "25.0", "1.5", "0", "450", "P0452">>,
   <<"AMB-T-300", "AMB-T-300 Ambient Temp Sensor", "Denso", "TemperatureSensor", "LIN", "1", "0.1", "15.0", "0.5", "-40", "80", PyNone>>,
   <<"ACC-LR-01", "ACC-LR-01 Long-Range Radar", "Bosch", "RadarSensor", "CAN", "20", "5.5", "180.0", "1.0", "0.5", "250", "P0501">> >>

\* name, (uri, label, manufacturer, ECU uri, subsystem)
vehicles_dict ==
  << <<"Camry", VEH("Camry"), "Toyota Camry", "Toyota", VEH("CamryECU"), "Powertrain">>,
   <<"Golf", VEH("Golf"), "Volkswagen Golf", "Volkswagen", VEH("GolfECU"), "Powertrain">>,
   <<"RAV4", VEH("RAV4"), "Toyota RAV4", "Toyota", VEH("RAV4ECU"), "Safety">> >>

instances ==
  << <<"camry_wss_fr", "Camry Wheel Speed Sensor (Front Right)", "WSS-MR-3", "Camry", "Wheel", "RAV4ECU">>,
   <<"rav4_wss_fl", "RAV4 Wheel Speed Sensor (Front Left)", "WSS-MR-3", "RAV4", "Wheel", "RAV4ECU">>,
   <<"camry_o2_1", "Camry Oxygen Sensor (Bank 1)", "BOS-O2-H1", "Camry", "EngineBay", "CamryECU">>,
   <<"golf_o2_1", "Golf Oxygen Sensor (Bank 1)", "BOS-O2-H1", "Golf", "EngineBay", "GolfECU">>,
   <<"golf_ks_1", "Golf Knock Sensor", "KS-PZ-2", "Golf", "EngineBay", "GolfECU">>,
   <<"rav4_cps_1", "RAV4 Crankshaft Position Sensor", "CPS-HS-5", "RAV4", "EngineBay", "CamryECU">>,
   <<"golf_tpms_rl", "Golf TPMS (Rear Left)", "TPMS-L4", "Golf", "Wheel", "GolfECU">>,
   <<"rav4_temp_cabin", "RAV4 Cabin Temp Sensor", "AMB-T-300", "RAV4", "Interior", "RAV4ECU">>,
   <<"camry_radar_f", "Camry Front Radar", "ACC-LR-01", "Camry", "Exterior", "RAV4ECU">> >>

\* the triples one iteration of each loop adds
LabelTriples(e) == { Triple(e[2], RDFS_label, Literal(e[1])) }

ProtocolTriples(e) ==
  { Triple(e[2], RDF_type, EX("Protocol")),
    Triple(e[2], RDFS_label, Literal(e[3])),
    Triple(e[2], EX("protocolBandwidthKbps"), Literal(e[4])),
    Triple(e[2], RDFS("comment"), Literal(e[5])) }

\* the label "C" is replaced; every other unit is labelled by its key
UnitTriples(e) ==
  { Triple(e[2], RDFS_label, Literal(IF e[1] # "C" THEN e[1] ELSE "Â°C")) }

\* name.split("(?=[A-Z])") finds no such separator in a name, so the joined
\* label is the name itself
SensorTypeTriples(e) ==
  { Triple(e[2], RDF_type, EX("SensorType")),
    Triple(e[2], RDFS_label, Literal(e[1])),
    Triple(e[2], EX("measures"), e[3]) }

DTCTriples(e) ==
  { Triple(e[2], RDFS_label, Literal(e[3])),
    Triple(e[2], RDFS("comment"), Literal(e[4])) }

SensorModelTriples(sm) ==
  LET uri == SEN(sm[1]) IN
  { Triple(uri, RDF_type, EX_SensorModel),
    Triple(uri, RDFS_label, Literal(sm[2])),
    Triple(uri, EX("manufacturedBy"), Entry(manufacturers, sm[3])[2]),
    Triple(uri, EX("hasSensorType"), Entry(sensor_types, sm[4])[2]),
    Triple(uri, EX("usesProtocol"), Entry(protocols, sm[5])[2]),
    Triple(uri, EX("sampleRateHz"), Literal(sm[6])),
    Triple(uri, EX("powerDrawW"), Literal(sm[7])),
    Triple(uri, EX("priceUSD"), Literal(sm[8])),
    Triple(uri, EX("accuracyPercent"), Literal(sm[9])),
    Triple(uri, EX("rangeMin"), Literal(sm[10])),
    Triple(uri, EX("rangeMax"), Literal(sm[11])) }
  \cup (IF sm[12] # PyNone
        THEN { Triple(uri, EX("relatedDTC"), Entry(dtcs, sm[12])[2]) }
        ELSE {})

\* model_uris.values()
model_uris == { SEN(sensor_models[i][1]) : i \in 1..Len(sensor_models) }

\* a vehicle loop that declares no type for the vehicle
VehicleTriples_NoType(e) ==
  { Triple(e[2], RDFS_label, Literal(e[3])),
    Triple(e[2], EX("manufacturedBy"), Entry(vehicle_mfrs, e[4])[2]),
    Triple(e[5], RDF_type, EX("ECU")),
    Triple(e[5], EX("partOf"), Entry(subsystems, e[6])[2]) }
  \cup { Triple(e[2], EX_compatibleWithModel, sm_uri) : sm_uri \in model_uris }

VehicleTriples(e) ==
  { Triple(e[2], RDF_type, EX_VehicleModel),
    Triple(e[2], RDFS_label, Literal(e[3])),
    Triple(e[2], EX("manufacturedBy"), Entry(vehicle_mfrs, e[4])[2]),
    Triple(e[5], RDF_type, EX("ECU")),
    Triple(e[5], RDFS_label,
           Literal(IF e[6] = "Powertrain" THEN e[1] \o " Main ECU"
                   ELSE e[1] \o " Safety ECU")),
    Triple(e[5], EX("partOf"), Entry(subsystems, e[6])[2]) }
  \cup { Triple(e[2], EX_compatibleWithModel, sm_uri) : sm_uri \in model_uris }

\* an instance loop that leaves out the ECU link when inst[5] is "RAV4ECU"
InstanceTriples_NoRAV4ECU(inst) ==
  LET uri == SEN(inst[1]) IN
  { Triple(uri, RDF_type, EX("SensorInstance")),
    Triple(uri, RDFS_label, Literal(inst[2])),
    Triple(uri, EX("isInstanceOf"), SEN(inst[3])),
    Triple(uri, EX_installedInModel, Entry(vehicles_dict, inst[4])[2]),
    Triple(uri, EX("locatedAt"), Entry(locations, inst[5])[2]) }
  \cup (IF inst[6] # "RAV4ECU"
        THEN { Triple(uri, EX("connectsToECU"), Entry(vehicles_dict, inst[4])[5]) }
        ELSE {})

InstanceTriples(inst) ==
  LET uri == SEN(inst[1]) IN
  { Triple(uri, RDF_type, EX("SensorInstance")),
    Triple(uri, RDFS_label, Literal(inst[2])),
    Triple(uri, EX("isInstanceOf"), SEN(inst[3])),
    Triple(uri, EX_installedInModel, Entry(vehicles_dict, inst[4])[2]),
    Triple(uri, EX("locatedAt"), Entry(locations, inst[5])[2]),
    Triple(uri, EX("connectsToECU"),
           IF inst[6] # "RAV4ECU" THEN Entry(vehicles_dict, inst[4])[5]
           ELSE Entry(vehicles_dict, "RAV4")[5]) }

\* the graph of the "small" branch
mini_g ==
  { Triple(EX_VehicleModel, RDFS("subClassOf"), EX("Component")),
    Triple(EX_SensorModel, RDFS("subClassOf"), EX("Component")),
    Triple(EX("SensorInstance"), RDFS("subClassOf"), EX("Component")),
    Triple(EX("Toyota"), RDFS_label, Literal("Toyota")),
    Triple(VEH("Camry"), RDF_type, EX_VehicleModel),
    Triple(VEH("Camry"), RDFS_label, Literal("Toyota Camry")),
    Triple(VEH("Camry"), EX("manufacturedBy"), EX("Toyota")),
    Triple(EX("OxygenSensor"), RDF_type, EX("SensorType")),
    Triple(EX("OxygenSensor"), RDFS_label, Literal("Oxygen Sensor")),
    Triple(SEN("BOS-O2-H1"), RDF_type, EX_SensorModel),
    Triple(SEN("BOS-O2-H1"), RDFS_label, Literal("BOS-O2-H1 Heated O2 Sensor")),
    Triple(SEN("BOS-O2-H1"), EX("hasSensorType"), EX("OxygenSensor")),
    Triple(SEN("BOS-O2-H1"), EX("sampleRateHz"), Literal("50")),
    Triple(SEN("camry_o2_1"), RDF_type, EX("SensorInstance")),
    Triple(SEN("camry_o2_1"), RDFS_label, Literal("Camry Oxygen Sensor (Bank 1)")),
    Triple(SEN("camry_o2_1"), EX("isInstanceOf"), SEN("BOS-O2-H1")),
    Triple(SEN("camry_o2_1"), EX_installedInModel, VEH("Camry")),
    Triple(SEN("camry_o2_1"), EX("locatedAt"), EX("EngineBay")),
    Triple(VEH("CamryECU"), RDF_type, EX("ECU")),
    Triple(VEH("CamryECU"), RDFS_label, Literal("Camry Main ECU")),
    Triple(VEH("CamryECU"), EX("partOf"), EX("Powertrain")),
    Triple(EX("Powertrain"), RDFS_label, Literal("Powertrain Control")),
    Triple(EX("EngineBay"), RDFS_label, Literal("Engine Bay")),
    Triple(SEN("camry_o2_1"), EX("connectsToECU"), VEH("CamryECU")) }

\* the values generate_dataset is called with
GraphSizes == {"default", "small", "full"}

GenInit ==
  /\ g = {}
  /\ bindings = NS_MAP
  /\ first \in FirstChoices({})
  /\ pc = "gen_idle"
  /\ graph_size \in GraphSizes
  /\ it = 0
  /\ ret = NoReturn
  /\ NoProjection
  /\ NoRag
  /\ NoCall

\* one iteration of the loop at position here over the sequence list, which
\* adds the triples added of list[it + 1]; after the last one control is at next
GenLoop(here, next, list, added) ==
  /\ pc = here
  /\ g' = g \cup added
  /\ it' = IF it + 1 = Len(list) THEN 0 ELSE it + 1
  /\ pc' = IF it + 1 = Len(list) THEN next ELSE here
  /\ UNCHANGED <<bindings, first, graph_size, ret, notGen>>

\* g = init_graph(); create_ontology(g)
GenerateCall ==
  /\ pc = "gen_idle"
  /\ g' = create_ontology
  /\ pc' = "gen_manufacturers"
  /\ UNCHANGED <<bindings, first, genVars, ret, notGen>>

GenManufacturers == GenLoop("gen_manufacturers", "gen_vehicle_mfrs", manufacturers, LabelTriples(manufacturers[it + 1]))
GenVehicleMfrs   == GenLoop("gen_vehicle_mfrs", "gen_locations", vehicle_mfrs, LabelTriples(vehicle_mfrs[it + 1]))
GenLocations     == GenLoop("gen_locations", "gen_subsystems", locations, LabelTriples(locations[it + 1]))

GenSubsystems ==
  /\ pc = "gen_subsystems"
  /\ g' = g \cup subsystem_labels
  /\ pc' = "gen_protocols"
  /\ UNCHANGED <<bindings, first, genVars, ret, notGen>>

GenProtocols    == GenLoop("gen_protocols", "gen_units", protocols, ProtocolTriples(protocols[it + 1]))
GenUnits        == GenLoop("gen_units", "gen_sensor_types", units, UnitTriples(units[it + 1]))
GenSensorTypes  == GenLoop("gen_sensor_types", "gen_dtcs", sensor_types, SensorTypeTriples(sensor_types[it + 1]))
GenDTCs         == GenLoop("gen_dtcs", "gen_sensor_models", dtcs, DTCTriples(dtcs[it + 1]))
GenSensorModels == GenLoop("gen_sensor_models", "gen_vehicles", sensor_models, SensorModelTriples(sensor_models[it + 1]))
GenVehicles     == GenLoop("gen_vehicles", "gen_instances", vehicles_dict, VehicleTriples(vehicles_dict[it + 1]))
GenInstances    == GenLoop("gen_instances", "gen_size", instances, InstanceTriples(instances[it + 1]))

\* if graph_size == "small": ... return mini_g
GenReturnMini ==
  /\ pc = "gen_size"
  /\ graph_size = "small"
  /\ ret' = mini_g
  /\ pc' = "gen_done"
  /\ UNCHANGED <<inputVars, bindings, genVars, notGen>>

\* return g
GenReturn ==
  /\ pc = "gen_size"
  /\ graph_size # "small"
  /\ ret' = g
  /\ pc' = "gen_done"
  /\ UNCHANGED <<inputVars, bindings, genVars, notGen>>

GenNext ==
  \/ GenerateCall \/ GenManufacturers \/ GenVehicleMfrs \/ GenLocations
  \/ GenSubsystems \/ GenProtocols \/ GenUnits \/ GenSensorTypes \/ GenDTCs
  \/ GenSensorModels \/ GenVehicles \/ GenInstances \/ GenReturnMini \/ GenReturn

GenSpec == GenInit /\ [][GenNext]_vars

\* the subjects declared rdf:type cls in the graph G
InstancesOf(G, cls) == { t[1] : t \in { x \in G : x[2] = RDF_type /\ x[3] = cls } }

\* the location resources of the dataset
Locations == { locations[i][2] : i \in 1..Len(locations) }

\* C22 (key relations): in the graph that generate_dataset() returns for the
\* default size, every resource declared rdf:type ex:SensorInstance has an
\* ex:isInstanceOf link to a sensor model, an ex:installedInModel link to a
\* vehicle model, an ex:locatedAt link to a location and an ex:connectsToECU
\* link to an ECU.
C22_KeyRelations ==
  (pc = "gen_done" /\ graph_size = "default") =>
    \A s \in InstancesOf(ret, EX("SensorInstance")) :
      /\ \E m \in InstancesOf(ret, EX_SensorModel) : Triple(s, EX("isInstanceOf"), m) \in ret
      /\ \E v \in InstancesOf(ret, EX_VehicleModel) : Triple(s, EX_installedInModel, v) \in ret
      /\ \E l \in Locations : Triple(s, EX("locatedAt"), l) \in ret
      /\ \E e \in InstancesOf(ret, EX("ECU")) : Triple(s, EX("connectsToECU"), e) \in ret

\* the default dataset was returned with its nine sensor instances
C22_Witness ==
  /\ pc = "gen_done" /\ graph_size = "default"
  /\ Cardinality(InstancesOf(ret, EX("SensorInstance"))) = 9

\* C23 (core classes): the graph that generate_dataset() returns for the
\* default size has at least one instance of each of ex:VehicleModel,
\* ex:SensorModel, ex:SensorInstance, ex:ECU and ex:SensorType, and at least
\* three distinct instances of ex:VehicleModel.
C23_CoreClasses ==
  (pc = "gen_done" /\ graph_size = "default") =>
    /\ \A cls \in {EX_VehicleModel, EX_SensorModel, EX("SensorInstance"),
                   EX("ECU"), EX("SensorType")} :
         InstancesOf(ret, cls) # {}
    /\ Cardinality(InstancesOf(ret, EX_VehicleModel)) >= 3

\* the default dataset was returned with three vehicle models and three ECUs
C23_Witness ==
  /\ pc = "gen_done" /\ graph_size = "default"
  /\ InstancesOf(ret, EX_VehicleModel) = {VEH("Camry"), VEH("Golf"), VEH("RAV4")}
  /\ Cardinality(InstancesOf(ret, EX("ECU"))) = 3

(***************************************************************************)
(* rag_demo.answer_question_with_kg.  A question is a sequence of          *)
(* characters; the three fixed queries are evaluated on the triples of g   *)
(* as their graph patterns read, and run_sparql_query turns each solution  *)
(* into a dict of strings.                                                 *)
(***************************************************************************)
UpperLetters == <<"A","B","C","D","E","F","G","H","I","J","K","L","M",
                  "N","O","P","Q","R","S","T","U","V","W","X","Y","Z">>
LowerLetters == <<"a","b","c","d","e","f","g","h","i","j","k","l","m",
                  "n","o","p","q","r","s","t","u","v","w","x","y","z">>

\* str.lower()
lower(q) ==
  [i \in 1..Len(q) |->
     IF \E k \in 1..26 : UpperLetters[k] = q[i]
     THEN LowerLetters[CHOOSE k \in 1..26 : UpperLetters[k] = q[i]]
     ELSE q[i]]

\* kw in q
Contains(q, kw) ==
  \E i \in 1..(Len(q) + 1) :
    i + Len(kw) - 1 <= Len(q) /\ SubSeq(q, i, i + Len(kw) - 1) = kw

kw_temperature == <<"t", "e", "m", "p", "e", "r", "a", "t", "u", "r", "e">>
kw_temp == <<"t", "e", "m", "p">>
kw_can_bus == <<"c", "a", "n", " ", "b", "u", "s">>
kw_wheel == <<"w", "h", "e", "e", "l">>
kw_wheels == <<"w", "h", "e", "e", "l", "s">>

\* the questions asked
Q_WheelTemp == <<"W", "h", "e", "e", "l", " ", "T", "E", "M", "P">>
Q_CanBus == <<"C", "A", "N", " ", "b", "u", "s", "?">>
Q_Wheels == <<"w", "h", "e", "e", "l", "s">>
Q_CanBusTemp == <<"c", "a", "n", " ", "b", "u", "s", " ", "t", "e", "m", "p">>
Q_Temperature == <<"T", "e", "m", "p", "e", "r", "a", "t", "u", "r", "e">>
Q_Canbus == <<"c", "a", "n", "b", "u", "s">>
Q_Empty == <<>>
Q_CanBusWheel == <<"C", "A", "N", " ", "b", "u", "s", " ", "w", "h", "e", "e", "l">>
Questions == {Q_WheelTemp, Q_CanBus, Q_Wheels, Q_CanBusTemp, Q_Temperature, Q_Canbus, Q_Empty, Q_CanBusWheel}

\* an intent detection that tests the keywords in the reverse order
DetectIntent_WheelFirst(q) ==
  IF Contains(lower(q), kw_wheel) \/ Contains(lower(q), kw_wheels) THEN "sensors_on_wheels"
  ELSE IF Contains(lower(q), kw_can_bus) THEN "what_is_can_bus"
  ELSE IF Contains(lower(q), kw_temperature) \/ Contains(lower(q), kw_temp)
       THEN "find_temp_sensors"
  ELSE PyNone

\* the if / elif / elif chain that sets intent
DetectIntent(q) ==
  IF Contains(lower(q), kw_temperature) \/ Contains(lower(q), kw_temp)
  THEN "find_temp_sensors"
  ELSE IF Contains(lower(q), kw_can_bus) THEN "what_is_can_bus"
  ELSE IF Contains(lower(q), kw_wheel) \/ Contains(lower(q), kw_wheels)
       THEN "sensors_on_wheels"
  ELSE PyNone

Apology == "I'm sorry, I can only answer questions about temperature sensors, CAN bus, or sensors on wheels."
NoInformation == "I found no information related to your question in the knowledge graph."
Found == "Based on the knowledge graph, here's what I found about"

\* run_sparql_query's conversion of one bound value
RowValue(b, val) ==
  IF IsURIRef(val) THEN (IF n3(b, val) = Exc THEN Str(val) ELSE n3(b, val))
  ELSE Str(val)

\* the solutions of the three queries of INTENT_TO_SPARQL on the graph G,
\* projected on the selected variables
INTENT_TO_SPARQL(G, b, name) ==
  CASE name = "find_temp_sensors" ->
         { [sensor_model |-> RowValue(b, x[1]), label |-> RowValue(b, x[3])] :
             x \in { y \in G : /\ y[2] = RDFS_label
                               /\ \E tt \in G : /\ tt[2] = EX("measures")
                                                /\ tt[3] = EX("Temperature")
                                                /\ Triple(y[1], EX("hasSensorType"), tt[1]) \in G } }
    [] name = "what_is_can_bus" ->
         { [label |-> RowValue(b, l[3]), comment |-> RowValue(b, c[3])] :
             l \in { y \in G : y[1] = PROT("CAN") /\ y[2] = RDFS_label },
             c \in { y \in G : y[1] = PROT("CAN") /\ y[2] = RDFS("comment") } }
    [] name = "sensors_on_wheels" ->
         { [instance_label |-> RowValue(b, z[1][3]), model_label |-> RowValue(b, z[2][3]),
            vehicle_label |-> RowValue(b, z[3][3])] :
             z \in { y \in { x \in G : x[2] = RDFS_label } \X { x \in G : x[2] = RDFS_label }
                             \X { x \in G : x[2] = RDFS_label } :
                       /\ \E loc \in G : /\ loc[2] = RDFS_label
                                        /\ loc[3] = Literal("Wheel")
                                        /\ Triple(y[1][1], EX("locatedAt"), loc[1]) \in G
                       /\ Triple(y[1][1], EX("isInstanceOf"), y[2][1]) \in G
                       /\ Triple(y[1][1], EX_installedInModel, y[3][1]) \in G } }

\* triples in the shape of the default dataset that the three queries can
\* match (the comment of prot:CAN is shortened)
RagUniverse ==
  { Triple(EX("TemperatureSensor"), EX("measures"), EX("Temperature")),
    Triple(SEN("AMB-T-300"), EX("hasSensorType"), EX("TemperatureSensor")),
    Triple(SEN("AMB-T-300"), RDFS_label, Literal("AMB-T-300 Ambient Temp Sensor")),
    Triple(PROT("CAN"), RDFS_label, Literal("CAN Bus")),
    Triple(PROT("CAN"), RDFS("comment"), Literal("Controller Area Network")),
    Triple(EX("Wheel"), RDFS_label, Literal("Wheel")),
    Triple(SEN("rav4_wss_fl"), EX("locatedAt"), EX("Wheel")),
    Triple(SEN("rav4_wss_fl"), RDFS_label, Literal("RAV4 Wheel Speed Sensor (Front Left)")),
    Triple(SEN("rav4_wss_fl"), EX_installedInModel, VEH("RAV4")),
    Triple(SEN("rav4_wss_fl"), EX("isInstanceOf"), SEN("WSS-MR-3")),
    Triple(VEH("RAV4"), RDFS_label, Literal("Toyota RAV4")),
    Triple(SEN("WSS-MR-3"), RDFS_label, Literal("WSS-MR-3 Magnetoresistive Wheel Speed Sensor")) }

\* number of these triples a queried graph may lack
MaxMissing == 1

RagGraphs ==
  { G \in SUBSET RagUniverse : Cardinality(RagUniverse \ G) <= MaxMissing } \cup { {} }

RagInit ==
  /\ g \in RagGraphs
  /\ bindings \in {NS_MAP, DefaultBindings}
  /\ first \in FirstChoices({})
  /\ pc = "rag_idle"
  /\ question \in Questions
  /\ intent = PyNone
  /\ results = {}
  /\ queries_run = <<>>
  /\ ret = NoReturn
  /\ NoProjection
  /\ NoGenerator
  /\ NoCall

\* intent = None, then the if / elif / elif chain
AnswerCall ==
  /\ pc = "rag_idle"
  /\ intent' = DetectIntent(question)
  /\ pc' = "rag_intent"
  /\ UNCHANGED <<inputVars, bindings, question, results, queries_run, ret, notRag>>

\* if not intent: return the apology
RagApologise ==
  /\ pc = "rag_intent"
  /\ intent = PyNone
  /\ ret' = [text |-> Apology, lines |-> {}]
  /\ pc' = "rag_done"
  /\ UNCHANGED <<inputVars, bindings, ragVars, notRag>>

\* results = run_sparql_query(g, INTENT_TO_SPARQL[intent])
RagRunQuery ==
  /\ pc = "rag_intent"
  /\ intent # PyNone
  /\ results' = INTENT_TO_SPARQL(g, bindings, intent)
  /\ queries_run' = Append(queries_run, intent)
  /\ pc' = "rag_results"
  /\ UNCHANGED <<inputVars, bindings, question, intent, ret, notRag>>

\* if not results: return the "no information" message
RagNoInformation ==
  /\ pc = "rag_results"
  /\ results = {}
  /\ ret' = [text |-> NoInformation, lines |-> {}]
  /\ pc' = "rag_done"
  /\ UNCHANGED <<inputVars, bindings, ragVars, notRag>>

\* the answer is formatted from the results: one line per result, or for
\* "what_is_can_bus" the line of results[0], whichever solution comes first
RagFormat ==
  /\ pc = "rag_results"
  /\ results # {}
  /\ \E r0 \in results :
       ret' = [text |-> Found,
               lines |-> IF intent = "what_is_can_bus" THEN {r0} ELSE results]
  /\ pc' = "rag_done"
  /\ UNCHANGED <<inputVars, bindings, ragVars, notRag>>

RagNext == AnswerCall \/ RagApologise \/ RagRunQuery \/ RagNoInformation \/ RagFormat

RagSpec == RagInit /\ [][RagNext]_vars

\* the lowered question contains the keyword kw
HasKeyword(kw) == Contains(lower(question), kw)

\* C24 (intent and fallbacks): answer_question_with_kg takes the intent of the
\* first keyword that its lowered question contains, trying 'temperature' or
\* 'temp', then 'can bus', then 'wheel'; with no keyword it returns the fixed
\* apology and runs no query; with a keyword it runs the one query of the
\* intent, and when that query has no result it returns the fixed "found no
\* information" message.
C24_IntentAndFallbacks ==
  /\ pc \in {"rag_intent", "rag_results", "rag_done"} =>
       /\ intent = IF HasKeyword(kw_temperature) \/ HasKeyword(kw_temp)
                   THEN "find_temp_sensors"
                   ELSE IF HasKeyword(kw_can_bus) THEN "what_is_can_bus"
                   ELSE IF HasKeyword(kw_wheel) THEN "sensors_on_wheels"
                   ELSE PyNone
       /\ question = Q_WheelTemp => intent = "find_temp_sensors"
       /\ question = Q_CanBusWheel => intent = "what_is_can_bus"
       /\ question = Q_Canbus => intent = PyNone
  /\ pc = "rag_done" =>
       /\ intent = PyNone => (ret.text = Apology /\ queries_run = <<>>)
       /\ intent # PyNone => queries_run = <<intent>>
       /\ (intent # PyNone /\ results = {}) => ret.text = NoInformation
       /\ (intent # PyNone /\ results # {}) => ret.text = Found

\* a question with both 'temp' and 'wheel' was answered from the results of
\* the temperature query
C24_Witness ==
  /\ pc = "rag_done" /\ question = Q_WheelTemp
  /\ queries_run = <<"find_temp_sensors">> /\ ret.text = Found

\* a question with no keyword got the apology, and one whose query matched
\* nothing got the "no information" message
C24_WitnessApology == pc = "rag_done" /\ question = Q_Canbus /\ ret.text = Apology

C24_WitnessNoInformation ==
  pc = "rag_done" /\ question = Q_Wheels /\ g # {} /\ ret.text = NoInformation

(***************************************************************************)
(* neo4j_loader.import_with_n10s and import_with_csv.  Every file check,   *)
(* file read and database operation is logged in events; an operation on   *)
(* the driver or a session may raise for reasons outside the program (the  *)
(* server is down, the plugin is missing, a statement is rejected).  A     *)
(* statement runs in its own auto-commit transaction: when it raises the   *)
(* database is as it was before it.                                        *)
(***************************************************************************)
PathA == "data/sensors.ttl"
PathB == "data/sensors_with_bus.ttl"
CYPHER_SCRIPT_PATH == "src/kg_sensors/cypher/load_from_csv.cypher"

\* longest list of TTL files import_with_n10s is called with
MaxFiles == 2

\* the statement of clear_neo4j_database
DeleteAll == "MATCH (n) DETACH DELETE n"

\* what the database holds before the import
OldData == "old data"

\* the statements import_with_n10s runs in its session, in order: one
\* nsprefixes.add per entry of rdf_utils.NS_MAP, then steps 2, 3 and 4
N10sStatements ==
  << "CALL n10s.nsprefixes.add('ex')", "CALL n10s.nsprefixes.add('sen')",
     "CALL n10s.nsprefixes.add('veh')", "CALL n10s.nsprefixes.add('dtc')",
     "CALL n10s.nsprefixes.add('prot')", "CALL n10s.nsprefixes.add('unit')",
     "CALL n10s.nsprefixes.add('rdfs')", "CALL n10s.nsprefixes.add('rdf')",
     "CALL n10s.nsprefixes.add('xsd')",
     "CREATE CONSTRAINT n10s_unique_uri", "CALL n10s.graphconfig.init()",
     "CALL n10s.rdf.import.inline" >>

\* the Cypher scripts import_with_csv is given: statements that load the
\* CSV files
Scripts == { <<>>, <<"LOAD CSV nodes">>, <<"LOAD CSV nodes", "LOAD CSV edges">> }

\* the graphs the RDF file of import_with_csv may hold
FileGraphs ==
  { {}, ScenarioA, {Triple(v1, RDFS_label, CarA)}, {Triple(v1, EX_bad, s1)} }

Event(op, arg, ok, n) == [op |-> op, arg |-> arg, ok |-> ok, loaded |-> n]

\* check_neo4j_password(): "if not NEO4J_PASSWORD" is true of None and of ""
check_neo4j_password(pw) == pw \notin {PyNone, ""}

\* a pre-check that lets a missing file pass, as the loop of
\* load_multiple_graphs_from_ttl does
MissingFile_Skipped(files, p) == FALSE

\* "if not p.exists()"
MissingFile(files, p) == p \notin files

\* a loader that reports a missing file by a False return
load_graph_from_ttl_ReturnsFalse(files, p) == IF p \notin files THEN "False" ELSE "ok"

\* rdf_utils.load_graph_from_ttl: raises FileNotFoundError for a missing file
load_graph_from_ttl(files, p) == IF p \notin files THEN "FileNotFoundError" ELSE "ok"

\* a clear that does not look at the flag
ClearWanted_Always(flag) == TRUE

\* "if clear_db:"
ClearWanted(flag) == flag

PathLists == UNION { [1..n -> {PathA, PathB}] : n \in 0..MaxFiles }

N10sCalls ==
  { [fn |-> "import_with_n10s", ttl_file_paths |-> ps, rdf_graph_path |-> PyNone,
     cypher_script_path |-> PyNone, clear_db |-> c] :
      ps \in PathLists, c \in BOOLEAN }

CsvCalls ==
  { [fn |-> "import_with_csv", ttl_file_paths |-> <<>>, rdf_graph_path |-> p,
     cypher_script_path |-> CYPHER_SCRIPT_PATH, clear_db |-> c] :
      p \in {PathA}, c \in BOOLEAN }

LoaderInit ==
  /\ NEO4J_PASSWORD \in {PyNone, "", "secret"}
  /\ fs \in SUBSET {PathA, PathB, CYPHER_SCRIPT_PATH}
  /\ call \in N10sCalls \cup CsvCalls
  /\ script \in (IF call.fn = "import_with_csv" /\ CYPHER_SCRIPT_PATH \in fs
                 THEN Scripts ELSE {<<>>})
  /\ g \in (IF call.fn = "import_with_csv" /\ call.rdf_graph_path \in fs
            THEN FileGraphs ELSE {{}})
  /\ bindings = NS_MAP
  /\ first \in FirstChoices(g)
  /\ events = <<>>
  /\ db = {OldData}
  /\ pc = "ldr_idle"
  /\ it = 0
  /\ graph_size = "default"
  /\ ret = NoReturn
  /\ NoProjection
  /\ NoRag

\* what the functions of neo4j_loader leave alone outside the export they call
notLoader == <<projVars, ragVars, graph_size, inputVars, bindings,
               NEO4J_PASSWORD, fs, script, call>>

\* return False
ReturnFalse == ret' = "False" /\ pc' = "ldr_done"

\* import_with_n10s: lines 46-47
N10sCall ==
  /\ pc = "ldr_idle"
  /\ call.fn = "import_with_n10s"
  /\ IF check_neo4j_password(NEO4J_PASSWORD)
     THEN pc' = "n10s_check" /\ ret' = ret
     ELSE ReturnFalse
  /\ UNCHANGED <<notLoader, it, events, db>>

\* one iteration of the loop of lines 49-52
N10sCheckFile ==
  /\ pc = "n10s_check"
  /\ it < Len(call.ttl_file_paths)
  /\ LET p == call.ttl_file_paths[it + 1] IN
       /\ events' = Append(events, Event("exists", p, p \in fs, 0))
       /\ IF MissingFile(fs, p)
          THEN ReturnFalse /\ it' = it
          ELSE it' = it + 1 /\ UNCHANGED <<pc, ret>>
  /\ UNCHANGED <<notLoader, db>>

N10sChecked ==
  /\ pc = "n10s_check"
  /\ it = Len(call.ttl_file_paths)
  /\ pc' = "n10s_load"
  /\ it' = 0
  /\ UNCHANGED <<notLoader, events, db, ret>>

\* one iteration of the loop of load_multiple_graphs_from_ttl: a missing
\* file is skipped, any other is parsed into the merged graph
N10sLoadFile ==
  /\ pc = "n10s_load"
  /\ it < Len(call.ttl_file_paths)
  /\ LET p == call.ttl_file_paths[it + 1] IN
       events' = Append(events, Event(IF p \in fs THEN "parse" ELSE "skip", p, TRUE, 0))
  /\ it' = it + 1
  /\ UNCHANGED <<notLoader, db, pc, ret>>

\* the merged graph is serialized and the driver is opened (line 59)
N10sDriver ==
  /\ pc = "n10s_load"
  /\ it = Len(call.ttl_file_paths)
  /\ \E ok \in BOOLEAN :
       /\ events' = Append(events, Event("driver", "", ok, 0))
       /\ IF ok
          THEN /\ pc' = IF ClearWanted(call.clear_db) THEN "n10s_clear" ELSE "n10s_run"
               /\ ret' = ret
          ELSE ReturnFalse
  /\ it' = 0
  /\ UNCHANGED <<notLoader, db>>

\* clear_neo4j_database(driver), lines 60-62
N10sClear ==
  /\ pc = "n10s_clear"
  /\ \E ok \in BOOLEAN :
       /\ events' = Append(events, Event("run", DeleteAll, ok, 0))
       /\ IF ok THEN db' = {} /\ pc' = "n10s_run" /\ ret' = ret
          ELSE db' = db /\ ReturnFalse
  /\ UNCHANGED <<notLoader, it>>

\* the next statement of the session, lines 68-89; the last one reports the
\* number of triples it loaded
N10sRun ==
  /\ pc = "n10s_run"
  /\ it < Len(N10sStatements)
  /\ \E ok \in BOOLEAN, n \in {0, 1} :
       /\ (n = 1) => (ok /\ it + 1 = Len(N10sStatements))
       /\ events' = Append(events, Event("run", N10sStatements[it + 1], ok, n))
       /\ IF ok
          THEN /\ db' = IF it + 1 < Len(N10sStatements) \/ n > 0
                        THEN db \cup {N10sStatements[it + 1]} ELSE db
               /\ it' = it + 1
               /\ UNCHANGED <<pc, ret>>
          ELSE db' = db /\ it' = it /\ ReturnFalse
  /\ UNCHANGED notLoader

\* lines 91-98
N10sReturn ==
  /\ pc = "n10s_run"
  /\ it = Len(N10sStatements)
  /\ ret' = IF events[Len(events)].loaded > 0 THEN "True" ELSE "False"
  /\ pc' = "ldr_done"
  /\ UNCHANGED <<notLoader, it, events, db>>

\* import_with_csv: lines 111-112
CsvCall ==
  /\ pc = "ldr_idle"
  /\ call.fn = "import_with_csv"
  /\ IF check_neo4j_password(NEO4J_PASSWORD)
     THEN pc' = "csv_load" /\ ret' = ret
     ELSE ReturnFalse
  /\ UNCHANGED <<notLoader, it, events, db>>

\* load_graph_from_ttl(rdf_graph_path) raises FileNotFoundError, which
\* import_with_csv does not catch, or parses the file
CsvLoadGraph ==
  /\ pc = "csv_load"
  /\ LET p == call.rdf_graph_path IN
       IF load_graph_from_ttl(fs, p) # "ok"
       THEN /\ events' = Append(events, Event("exists", p, FALSE, 0))
            /\ ret' = load_graph_from_ttl(fs, p)
            /\ pc' = "ldr_raised"
       ELSE /\ events' = Append(Append(events, Event("exists", p, TRUE, 0)),
                                Event("parse", p, TRUE, 0))
            /\ ret' = ret
            /\ pc' = "csv_export"
  /\ UNCHANGED <<notLoader, it, db>>

\* export_to_csv(g, csv_dir) is called; it runs as the export actions
CsvExportCall ==
  /\ pc = "csv_export"
  /\ nodes_data' = EmptyBag
  /\ edges_data' = EmptyBag
  /\ processed_nodes' = {}
  /\ nodes' = {}
  /\ todo' = g
  /\ pc' = "exp_collect"
  /\ UNCHANGED <<inputVars, otherVars, callVars, bindings, todoNodes, bipVars, nx_graph, csv>>

\* lines 120-125, after export_to_csv has returned
CsvScriptCheck ==
  /\ pc = "exp_done"
  /\ call.fn = "import_with_csv"
  /\ LET p == call.cypher_script_path IN
       IF MissingFile(fs, p)
       THEN /\ events' = Append(events, Event("exists", p, FALSE, 0))
            /\ ReturnFalse
       ELSE /\ events' = Append(Append(events, Event("exists", p, TRUE, 0)),
                                Event("read", p, TRUE, 0))
            /\ ret' = ret
            /\ pc' = "csv_driver"
  /\ UNCHANGED <<notLoader, it, db>>

\* line 128
CsvDriver ==
  /\ pc = "csv_driver"
  /\ \E ok \in BOOLEAN :
       /\ events' = Append(events, Event("driver", "", ok, 0))
       /\ IF ok
          THEN /\ pc' = IF ClearWanted(call.clear_db) THEN "csv_clear" ELSE "csv_run"
               /\ ret' = ret
          ELSE ReturnFalse
  /\ UNCHANGED <<notLoader, it, db>>

\* lines 129-131
CsvClear ==
  /\ pc = "csv_clear"
  /\ \E ok \in BOOLEAN :
       /\ events' = Append(events, Event("run", DeleteAll, ok, 0))
       /\ IF ok THEN db' = {} /\ pc' = "csv_run" /\ ret' = ret
          ELSE db' = db /\ ReturnFalse
  /\ UNCHANGED <<notLoader, it>>

\* one iteration of the loop of lines 136-138
CsvRun ==
  /\ pc = "csv_run"
  /\ it < Len(script)
  /\ \E ok \in BOOLEAN :
       /\ events' = Append(events, Event("run", script[it + 1], ok, 0))
       /\ IF ok
          THEN db' = db \cup {script[it + 1]} /\ it' = it + 1 /\ UNCHANGED <<pc, ret>>
          ELSE db' = db /\ it' = it /\ ReturnFalse
  /\ UNCHANGED notLoader

\* line 140
CsvReturn ==
  /\ pc = "csv_run"
  /\ it = Len(script)
  /\ ret' = "True"
  /\ pc' = "ldr_done"
  /\ UNCHANGED <<notLoader, it, events, db>>

LoaderNext ==
  \/ N10sCall \/ N10sCheckFile \/ N10sChecked \/ N10sLoadFile \/ N10sDriver
  \/ N10sClear \/ N10sRun \/ N10sReturn
  \/ CsvCall \/ CsvLoadGraph \/ CsvExportCall
  \/ ExportCollectStep \/ ExportCollectDone \/ ExportNodeStep \/ ExportNodesDone
  \/ ExportEdgeStep \/ ExportWrite
  \/ CsvScriptCheck \/ CsvDriver \/ CsvClear \/ CsvRun \/ CsvReturn

LoaderSpec == LoaderInit /\ [][LoaderNext]_vars

LoaderTypeOK ==
  /\ pc \in {"ldr_idle", "ldr_done", "ldr_raised", "n10s_check", "n10s_load", "n10s_clear",
             "n10s_run", "csv_load", "csv_export", "csv_driver", "csv_clear", "csv_run",
             "exp_collect", "exp_nodes", "exp_edges", "exp_done", "exp_raised"}
  /\ db \subseteq {OldData} \cup { N10sStatements[i] : i \in 1..Len(N10sStatements) }
                 \cup { "LOAD CSV nodes", "LOAD CSV edges" }
  /\ it \in 0..Len(N10sStatements)

\* the positions in events of the operations named in ops
Ops(ops) == { i \in 1..Len(events) : events[i].op \in ops }

\* "if not NEO4J_PASSWORD" holds
PasswordNotSet == NEO4J_PASSWORD \in {PyNone, ""}

\* C25 (n10s early exit): import_with_n10s returns False without a file
\* read, a database connection, a clear or an import statement whenever the
\* password is not set or one of the listed files does not exist, and every
\* file-existence check of its list is done before the first file is read
\* and before the first database operation.
C25_N10sEarlyExit ==
  call.fn = "import_with_n10s" =>
    /\ (PasswordNotSet \/ \E i \in DOMAIN call.ttl_file_paths : call.ttl_file_paths[i] \notin fs) =>
         /\ Ops({"parse", "skip", "driver", "run"}) = {}
         /\ db = {OldData}
         /\ pc \in {"ldr_idle", "n10s_check", "ldr_done"}
         /\ pc = "ldr_done" => ret = "False"
    /\ PasswordNotSet => events = <<>>
    /\ Ops({"parse", "skip", "driver", "run"}) # {} =>
         /\ Ops({"exists"}) = 1..Len(call.ttl_file_paths)
         /\ \A i \in Ops({"exists"}) : events[i].arg = call.ttl_file_paths[i] /\ events[i].ok

\* import_with_n10s returned False after it found the second of two listed
\* files missing
C25_Witness ==
  /\ call.fn = "import_with_n10s" /\ ~PasswordNotSet
  /\ call.ttl_file_paths = <<PathA, PathB>> /\ PathA \in fs /\ PathB \notin fs
  /\ pc = "ldr_done" /\ ret = "False" /\ Len(events) = 2

\* import_with_n10s returned False at once for want of a password
C25_WitnessPassword ==
  call.fn = "import_with_n10s" /\ PasswordNotSet /\ pc = "ldr_done" /\ ret = "False"

\* the statements of the script that were run, in the order they were run
ScriptRuns ==
  LET IsScriptRun(e) == e.op = "run" /\ e.arg # DeleteAll
  IN  SelectSeq(events, IsScriptRun)

\* C26 (csv order): import_with_csv checks the password, then loads the RDF
\* file and writes nodes.csv and edges.csv, then checks that the Cypher
\* script exists, then opens the connection, then clears the database if
\* asked to, then runs the statements of the script in file order.  With no
\* script it returns False with the CSV files written, no connection opened
\* and nothing cleared; with no RDF file a FileNotFoundError reaches the
\* caller and nothing is returned.
C26_CsvOrder ==
  call.fn = "import_with_csv" =>
    /\ PasswordNotSet =>
         /\ events = <<>> /\ ~csv.nodes.written
         /\ pc \in {"ldr_idle", "ldr_done"}
         /\ pc = "ldr_done" => ret = "False"
    /\ (~PasswordNotSet /\ call.rdf_graph_path \notin fs) =>
         /\ pc \in {"ldr_idle", "csv_load", "ldr_raised"}
         /\ pc = "ldr_raised" => ret = "FileNotFoundError"
         /\ ~csv.nodes.written /\ ~csv.edges.written
         /\ Ops({"driver", "run"}) = {}
    /\ (csv.nodes.written \/ csv.edges.written) =>
         /\ Len(events) >= 2
         /\ events[1] = Event("exists", call.rdf_graph_path, TRUE, 0)
         /\ events[2] = Event("parse", call.rdf_graph_path, TRUE, 0)
    /\ \A i \in DOMAIN events :
         events[i].arg = call.cypher_script_path => (csv.nodes.written /\ csv.edges.written)
    /\ \A j \in Ops({"driver"}) :
         /\ j = 5
         /\ events[3] = Event("exists", call.cypher_script_path, TRUE, 0)
         /\ events[4] = Event("read", call.cypher_script_path, TRUE, 0)
    /\ \A j \in Ops({"run"}) :
         /\ 5 \in Ops({"driver"}) /\ events[5].ok /\ j > 5
         /\ events[j].arg = DeleteAll => j = 6
         /\ (call.clear_db /\ events[j].arg # DeleteAll) => (j > 6 /\ events[6].arg = DeleteAll)
    /\ \A i \in DOMAIN ScriptRuns : i <= Len(script) /\ ScriptRuns[i].arg = script[i]
    /\ (pc = "ldr_done" /\ ret = "True") => Len(ScriptRuns) = Len(script)
    /\ (pc = "ldr_done" /\ ~PasswordNotSet /\ call.cypher_script_path \notin fs) =>
         /\ ret = "False"
         /\ csv.nodes.written /\ csv.edges.written
         /\ Ops({"driver", "run"}) = {}
         /\ db = {OldData}

\* import_with_csv returned False for want of the script, with the CSV files
\* of a graph that has node rows written
C26_Witness ==
  /\ call.fn = "import_with_csv" /\ call.cypher_script_path \notin fs
  /\ pc = "ldr_done" /\ ret = "False"
  /\ csv.nodes.written /\ csv.nodes.rows # EmptyBag

\* a FileNotFoundError left import_with_csv
C26_WitnessRaised ==
  call.fn = "import_with_csv" /\ pc = "ldr_raised" /\ ret = "FileNotFoundError"

\* import_with_csv returned True after a clear and a script of two statements
C26_WitnessLoaded ==
  /\ call.fn = "import_with_csv" /\ call.clear_db /\ Len(script) = 2
  /\ pc = "ldr_done" /\ ret = "True"

\* the database clear has been run and did not raise
Cleared == \E i \in DOMAIN events : events[i].arg = DeleteAll /\ events[i].ok

\* C27 (clear is not undone): with clear_db=True both import functions run
\* the clear before any import statement; once it is done the old data stay
\* deleted, and a later statement that fails makes the function return
\* False with the database cleared and holding what the earlier statements
\* imported.  With clear_db=False no delete statement is issued and the old
\* data stay.
C27_ClearNotUndone ==
  /\ \A j \in DOMAIN events :
       events[j].arg = DeleteAll =>
         (call.clear_db /\ \A i \in 1..(j - 1) : events[i].op # "run")
  /\ call.clear_db =>
       \A j \in Ops({"run"}) :
         events[j].arg # DeleteAll =>
           \E i \in 1..(j - 1) : events[i].arg = DeleteAll /\ events[i].ok
  /\ Cleared => OldData \notin db
  /\ (pc = "ldr_done" /\ \E j \in Ops({"run"}) : ~events[j].ok) =>
       /\ ret = "False"
       /\ db = IF Cleared THEN { events[i].arg : i \in { k \in Ops({"run"}) :
                                     events[k].ok /\ events[k].arg # DeleteAll } }
               ELSE {OldData} \cup { events[i].arg : i \in { k \in Ops({"run"}) : events[k].ok } }
  /\ ~call.clear_db =>
       /\ OldData \in db
       /\ \A j \in DOMAIN events : events[j].arg # DeleteAll

\* import_with_n10s returned False after a statement failed, with the
\* database cleared and partly loaded
C27_Witness ==
  /\ call.fn = "import_with_n10s" /\ call.clear_db /\ Cleared
  /\ pc = "ldr_done" /\ ret = "False"
  /\ OldData \notin db /\ db # {}

\* the same for import_with_csv
C27_WitnessCsv ==
  /\ call.fn = "import_with_csv" /\ call.clear_db /\ Cleared
  /\ pc = "ldr_done" /\ ret = "False"
  /\ OldData \notin db /\ db # {}

\* an import with clear_db=False returned True with the old data kept
C27_WitnessNoClear ==
  ~call.clear_db /\ pc = "ldr_done" /\ ret = "True" /\ OldData \in db

(***************************************************************************)
(* cli: the commands generate, sparql and viz, and the command examples    *)
(* that calls them.  call holds the arguments of the command function that *)
(* is running.  A parameter is a string; a parameter that a plain Python   *)
(* call leaves out has its declared default, which is the object that      *)
(* typer.Option(...) returned when the function was defined: only typer's  *)
(* own dispatch from the command line replaces that object by the value    *)
(* given to typer.Option.  events logs what was generated, queried and     *)
(* plotted; it counts the steps of examples that were started.             *)
(***************************************************************************)
DEFAULT_TTL_PATH == "data/sensors.ttl"
SENSORS_WITH_BUS_PATH == "data/sensors_with_bus.ttl"
BUS_ONTOLOGY_PATH == "data/bus_ontology.ttl"
MINI_PATH == "data/samples/mini_sensors.ttl"
BASICS_QUERY == "queries/sensors_basics.sparql"
INTERMEDIATE_QUERY == "queries/sensors_intermediate.sparql"
ENTITY_HTML == "reports/entity_graph.html"
BUS_ENTITY_HTML == "reports/bus_ontology_entity_graph.html"
BIPARTITE_HTML == "reports/bipartite_graph.html"

\* the typer.models.OptionInfo object of a parameter's declaration
OptionInfo == "<typer.models.OptionInfo object>"

\* bool(v): an object without __bool__ and __len__, as OptionInfo, is true
PyTruthy(v) == v \notin {"False", "", PyNone}

Frame(fn, size, bus, swb, qf, ttl, gt) ==
  [fn |-> fn, size |-> size, bus_ontology |-> bus, sensors_with_bus |-> swb,
   query_file |-> qf, ttl_file |-> ttl, graph_type |-> gt]

\* the frames typer builds from a command line
CommandLines ==
  { Frame("generate", sz, b, s, PyNone, PyNone, PyNone) :
      sz \in {"default", "small", "huge"}, b \in {"True", "False"}, s \in {"True", "False"} }
  \cup { Frame("sparql", PyNone, PyNone, PyNone, qf, ttl, PyNone) :
           qf \in {BASICS_QUERY, INTERMEDIATE_QUERY}, ttl \in {DEFAULT_TTL_PATH, BUS_ONTOLOGY_PATH} }
  \cup { Frame("viz", PyNone, PyNone, PyNone, PyNone, ttl, gt) :
           ttl \in {DEFAULT_TTL_PATH, BUS_ONTOLOGY_PATH}, gt \in {"entity", "bipartite", "tree"} }
  \cup { Frame("examples", PyNone, PyNone, PyNone, PyNone, PyNone, PyNone) }

\* the frames of the four plain calls in examples (lines 208, 211, 214, 217)
ExampleCalls ==
  << Frame("generate", "default", OptionInfo, OptionInfo, PyNone, PyNone, PyNone),
     Frame("sparql", PyNone, PyNone, PyNone, BASICS_QUERY, OptionInfo, PyNone),
     Frame("sparql", PyNone, PyNone, PyNone, INTERMEDIATE_QUERY, OptionInfo, PyNone),
     Frame("viz", PyNone, PyNone, PyNone, PyNone, OptionInfo, "entity") >>

\* the branch of generate: the data_generator function it calls and the path
\* it saves to, or the exit of an invalid size
GenerateBranch(c) ==
  IF PyTruthy(c.sensors_with_bus)
  THEN [op |-> "generate_sensors_with_bus_data", path |-> SENSORS_WITH_BUS_PATH]
  ELSE IF PyTruthy(c.bus_ontology)
  THEN [op |-> "generate_bus_ontology", path |-> BUS_ONTOLOGY_PATH]
  ELSE IF c.size = "default"
  THEN [op |-> "generate_dataset", path |-> DEFAULT_TTL_PATH]
  ELSE IF c.size = "small"
  THEN [op |-> "generate_dataset(graph_size='small')", path |-> MINI_PATH]
  ELSE [op |-> "Exit", path |-> ""]

\* rdf_utils.load_graph_from_ttl(ttl_file) as the commands call it:
\* file_path.exists() is the first use of the argument, and an OptionInfo
\* has no such attribute
LoadOutcome(files, ttl) ==
  IF ttl = OptionInfo THEN "AttributeError"
  ELSE load_graph_from_ttl(files, ttl)

\* the output of viz
VizOutput(c) ==
  IF c.graph_type = "entity"
  THEN (IF c.ttl_file = BUS_ONTOLOGY_PATH THEN BUS_ENTITY_HTML ELSE ENTITY_HTML)
  ELSE IF c.graph_type = "bipartite" THEN BIPARTITE_HTML
  ELSE "Exit"

CliInit ==
  /\ call \in CommandLines
  /\ pc = call.fn
  /\ fs \in SUBSET {DEFAULT_TTL_PATH, BUS_ONTOLOGY_PATH, BASICS_QUERY, INTERMEDIATE_QUERY}
  /\ events = <<>>
  /\ it = 0
  /\ ret = NoReturn
  /\ NEO4J_PASSWORD = PyNone /\ script = <<>> /\ db = {}
  /\ g = {} /\ bindings = NS_MAP /\ first \in FirstChoices({})
  /\ graph_size = "default"
  /\ NoProjection
  /\ NoRag

notCli == <<projVars, ragVars, graph_size, inputVars, bindings, NEO4J_PASSWORD, script, db>>

\* the command function returns: to examples when examples called it
CliReturn == pc' = (IF it = 0 THEN "cli_done" ELSE "examples") /\ ret' = ret

\* an exception leaves the command function, and examples with it
CliRaise(e) == pc' = "cli_raised" /\ ret' = e

\* generate, lines 45-71
CliGenerate ==
  /\ pc = "generate"
  /\ LET b == GenerateBranch(call) IN
       IF b.op = "Exit"
       THEN CliRaise("Exit(1)") /\ UNCHANGED <<fs, events>>
       ELSE /\ events' = Append(events, Event(b.op, b.path, TRUE, 0))
            /\ fs' = fs \cup {b.path}
            /\ CliReturn
  /\ UNCHANGED <<notCli, call, it>>

\* sparql, lines 82-84
CliSparqlCheck ==
  /\ pc = "sparql"
  /\ IF call.query_file \notin fs THEN CliRaise("Exit(1)")
     ELSE pc' = "sparql_load" /\ ret' = ret
  /\ UNCHANGED <<notCli, call, it, fs, events>>

\* sparql, line 87
CliSparqlLoad ==
  /\ pc = "sparql_load"
  /\ IF LoadOutcome(fs, call.ttl_file) # "ok" THEN CliRaise(LoadOutcome(fs, call.ttl_file))
     ELSE pc' = "sparql_run" /\ ret' = ret
  /\ UNCHANGED <<notCli, call, it, fs, events>>

\* sparql, lines 89-100: the queries of the file are run on the loaded graph
CliSparqlRun ==
  /\ pc = "sparql_run"
  /\ events' = Append(events, Event("run_sparql_query", call.query_file, TRUE, 0))
  /\ CliReturn
  /\ UNCHANGED <<notCli, call, it, fs>>

\* viz, line 134
CliVizLoad ==
  /\ pc = "viz"
  /\ IF LoadOutcome(fs, call.ttl_file) # "ok" THEN CliRaise(LoadOutcome(fs, call.ttl_file))
     ELSE pc' = "viz_plot" /\ ret' = ret
  /\ UNCHANGED <<notCli, call, it, fs, events>>

\* viz, lines 136-153
CliVizPlot ==
  /\ pc = "viz_plot"
  /\ IF VizOutput(call) = "Exit"
     THEN CliRaise("Exit(1)") /\ UNCHANGED <<fs, events>>
     ELSE /\ events' = Append(events, Event("plot_networkx_graph", VizOutput(call), TRUE, 0))
          /\ fs' = fs \cup {VizOutput(call)}
          /\ CliReturn
  /\ UNCHANGED <<notCli, call, it>>

\* examples, lines 205-220: it makes its next call, or returns after the
\* fourth
CliExamples ==
  /\ pc = "examples"
  /\ IF it < Len(ExampleCalls)
     THEN /\ it' = it + 1
          /\ call' = ExampleCalls[it + 1]
          /\ pc' = ExampleCalls[it + 1].fn
     ELSE /\ pc' = "cli_done"
          /\ UNCHANGED <<call, it>>
  /\ UNCHANGED <<notCli, fs, events, ret>>

CliNext ==
  \/ CliGenerate \/ CliSparqlCheck \/ CliSparqlLoad \/ CliSparqlRun
  \/ CliVizLoad \/ CliVizPlot \/ CliExamples

CliSpec == CliInit /\ [][CliNext]_vars

\* the command that was given on the command line is examples
InExamples == it >= 1 \/ pc = "examples"

\* C28 (examples), as claimed: examples performs its four steps in order and
\* to completion when its two query files exist: step 1 generates the
\* default dataset into data/sensors.ttl, steps 2 and 3 run the basic and
\* the intermediate query file on the graph loaded from data/sensors.ttl,
\* step 4 plots the entity view into reports/entity_graph.html, and no step
\* raises.
C28_ExamplesRun ==
  (InExamples /\ {BASICS_QUERY, INTERMEDIATE_QUERY} \subseteq fs) =>
    /\ pc # "cli_raised"
    /\ Len(events) >= 1 => events[1] = Event("generate_dataset", DEFAULT_TTL_PATH, TRUE, 0)
    /\ Len(events) >= 2 => events[2] = Event("run_sparql_query", BASICS_QUERY, TRUE, 0)
    /\ Len(events) >= 3 => events[3] = Event("run_sparql_query", INTERMEDIATE_QUERY, TRUE, 0)
    /\ Len(events) >= 4 => events[4] = Event("plot_networkx_graph", ENTITY_HTML, TRUE, 0)
    /\ pc = "cli_done" => Len(events) = 4

\* C29 (projection and export agree): when the entity projection and then
\* the export have run on the same graph, the node identifiers of the entity
\* graph are the uri values of the node rows, and the edges of the entity
\* graph are the unordered pairs {start_uri, end_uri} of the edge rows.
C29_ProjectionAndExportAgree ==
  (pc = "exp_done" /\ calls >= 1) =>
    /\ NodeIds = { r.uri : r \in BagToSet(csv.nodes.rows) }
    /\ EdgeKeys = { {r.start_uri, r.end_uri} : r \in BagToSet(csv.edges.rows) }

\* both have returned for a graph with a self-loop, a literal and two
\* triples between the same two resources
C29_Witness ==
  /\ pc = "exp_done" /\ calls >= 1
  /\ Cardinality(NodeIds) >= 2
  /\ \E r \in BagToSet(csv.edges.rows) : r.start_uri # r.end_uri
  /\ Cardinality(EdgeKeys) < Cardinality(ObjectTriples(g))

(***************************************************************************)
(* viz_plotly: the colour plot_networkx_graph gives a node                 *)
(***************************************************************************)
COLOR_PALETTE ==
  [k \in {"SensorModel", "SensorInstance", "VehicleModel", "ECU", "SensorType",
          "Subsystem", "Protocol", "Location", "DTC", "Manufacturer", "Default"} |->
     CASE k = "SensorModel"    -> "#1f77b4"
       [] k = "SensorInstance" -> "#aec7e8"
       [] k = "VehicleModel"   -> "#ff7f0e"
       [] k = "ECU"            -> "#ffbb78"
       [] k = "SensorType"     -> "#2ca02c"
       [] k = "Subsystem"      -> "#98df8a"
       [] k = "Protocol"       -> "#d62728"
       [] k = "Location"       -> "#ff9896"
       [] k = "DTC"            -> "#9467bd"
       [] k = "Manufacturer"   -> "#8c564b"
       [] OTHER                -> "#7f7f7f"]

\* COLOR_PALETTE.get(nx_graph.nodes[node].get('type', 'Default'),
\*                   COLOR_PALETTE["Default"])
NodeColor(attrs) ==
  LET node_type == IF "type" \in DOMAIN attrs THEN attrs["type"] ELSE "Default"
  IN  IF node_type \in DOMAIN COLOR_PALETTE THEN COLOR_PALETTE[node_type]
      ELSE COLOR_PALETTE["Default"]

\* the classes of the model's graphs that have an entry in COLOR_PALETTE
PaletteClasses == {EX_VehicleModel, EX_SensorModel}

\* C30 (colour by type), as claimed: in the graph to_networkx_entity_graph
\* returns, a node whose declared rdf:type is a class with an entry in
\* COLOR_PALETTE has that palette key as its 'type' attribute, and
\* plot_networkx_graph gives it the colour of that entry.
C30_ColourByType ==
  pc = "ent_done" =>
    \A t \in g :
      (IsURIRef(t[1]) /\ t[2] = RDF_type /\ first.type[t[1]] = t[3] /\ t[3] \in PaletteClasses) =>
        /\ nx_graph.nodes[Str(t[1])].type = t[3].name
        /\ NodeColor(nx_graph.nodes[Str(t[1])]) = COLOR_PALETTE[t[3].name]

====
